---------------------------- MODULE Spec2Model ----------------------------
(***************************************************************************)
(* State-machine model of the CodeQL extractor action:                     *)
(*   src/src/codeql.rs      codeql_download, gh_codeql_download            *)
(*   src/src/extractors.rs  fetch_releases, fetch_extractor, update_sarif  *)
(*   src/src/main.rs        main                                           *)
(*   src/src/action.rs      the Action inputs, get_codeql_dir              *)
(* External collaborators (the REST client, the tool cache, the codeql CLI *)
(* wrapper, the gh CLI, the filesystem) are inputs: each call's outcome is *)
(* chosen with \E from a small set.                                        *)
(***************************************************************************)
EXTENDS Integers, Sequences, FiniteSets, TLC

VARIABLES
    sarif,        \* content of the report file update_sarif was last applied to
    sarif_ret,    \* return of the last update_sarif call ("none" before any)
    sarif_arg,    \* `extractor` argument of the last call
    sarif_old,    \* content of the file before the last call
    sarif_oldret, \* return of the call before the last one
    sarif_oldarg, \* argument of the call before the last one
    sarif_write,  \* outcome of std::fs::write in the last call
    sarif_calls   \* number of calls made

VARIABLES
    fs,           \* the extractors directory: name -> [tar, zip, pack]
    fetch_ret,    \* return of the last fetch_extractor call
    fetch_calls,  \* external calls the last fetch_extractor made, in order
    fetch_pre,    \* the extractors directory before the last call
    fetch_arg,    \* repository and attest arguments of the last call
    fetch_assets, \* the asset list the last call's release lookup returned
    fetch_attest, \* how the last call's attestation command ended ("not_run" if not run)
    fetch_lookup, \* how the last call's release lookup ended ("not_run" if not run)
    fetch_tools   \* the tools/ tree the last call's manifest search found (before any chmod)

fetch_vars == <<fs, fetch_ret, fetch_calls, fetch_pre, fetch_arg, fetch_assets, fetch_attest,
                fetch_lookup, fetch_tools>>

VARIABLES
    pc,           \* main: the step main is at
    action,       \* main: the Action inputs (token, extractors, languages, flags)
    installed,    \* main: codeql.is_installed()
    install_log,  \* main: the installation tiers codeql_download tried, in order
    search_path,  \* main: the search paths appended to the CodeQL handle
    extractors,   \* main: the loaded extractors (extractor, reporef), in order
    idx,          \* main: index of the extractor the current loop is at
    databases,    \* main: language -> state of databases/db-{language}
    reports,      \* main: language -> content of results/{language}-results.sarif
    steps,        \* main: per extractor, the pipeline steps run for it, in order
    outcome,      \* main: what main returned (status "running" until it returns)
    emitted,      \* main: the action output and the messages emitted after the pipeline loop
    markers       \* main: the log group markers emitted, in order

main_vars == <<pc, action, installed, install_log, search_path, extractors, idx,
               databases, reports, steps, outcome, emitted, markers>>

sarif_vars == <<sarif, sarif_ret, sarif_arg, sarif_old, sarif_oldret, sarif_oldarg,
                sarif_write, sarif_calls>>

VARIABLES
    dir_env,      \* the candidate .codeql directories: candidate -> its state
    dir_pre,      \* the candidate directories before the last get_codeql_dir call
    dir_ret       \* return of the last get_codeql_dir call ("none" before any)

dir_vars == <<dir_env, dir_pre, dir_ret>>

-----------------------------------------------------------------------------
(* serde_json::Value.  Every value is a record of one shape so that values  *)
(* of different JSON kinds can be compared and put in one set:             *)
(*   kind   "null" | "bool" | "number" | "string" | "array" | "object"     *)
(*   str    the text of a string / number / bool                           *)
(*   items  the elements of an array                                       *)
(*   fields the map of an object (key -> value)                            *)
(* kind "none" is Option::None of get / get_mut.                            *)

NoFields == [k \in {} |-> 0]

None == [kind |-> "none", str |-> "", items |-> <<>>, fields |-> NoFields]

JNull == [kind |-> "null", str |-> "", items |-> <<>>, fields |-> NoFields]

JStr(s) == [kind |-> "string", str |-> s, items |-> <<>>, fields |-> NoFields]

JNum(s) == [kind |-> "number", str |-> s, items |-> <<>>, fields |-> NoFields]

JBool(s) == [kind |-> "bool", str |-> s, items |-> <<>>, fields |-> NoFields]

JArr(xs) == [kind |-> "array", str |-> "", items |-> xs, fields |-> NoFields]

JObj(f) == [kind |-> "object", str |-> "", items |-> <<>>, fields |-> f]

\* Value::get / get_mut with a &str index: Some only on an object holding the key.
Get(v, key) ==
    IF v.kind = "object" /\ key \in DOMAIN v.fields THEN v.fields[key] ELSE None

\* Value::get / get_mut with a usize index (0-based): Some only on an array long enough.
GetIdx(v, i) ==
    IF v.kind = "array" /\ i + 1 <= Len(v.items) THEN v.items[i + 1] ELSE None

\* The value `v[key] = new` panics on (serde_json IndexMut<&str>: neither null nor object).
Panicked == [kind |-> "panic", str |-> "", items |-> <<>>, fields |-> NoFields]

\* Mutant of IndexAssign: the new string is appended to the string already there.
IndexAssignAppend(v, key, new) ==
    IF v.kind = "null" THEN JObj(key :> new)
    ELSE IF v.kind = "object"
         THEN IF key \in DOMAIN v.fields /\ v.fields[key].kind = "string"
              THEN JObj((key :> JStr(v.fields[key].str \o new.str)) @@ v.fields)
              ELSE JObj((key :> new) @@ v.fields)
         ELSE Panicked

\* `v[key] = new` (serde_json IndexMut<&str>): null becomes an object, an object
\* gets the key inserted or overwritten, anything else panics.
IndexAssign(v, key, new) ==
    IF v.kind = "null" THEN JObj(key :> new)
    ELSE IF v.kind = "object" THEN JObj((key :> new) @@ v.fields)
         ELSE Panicked

\* format!("CodeQL - {}", extractor)
NewName(extractor) == "CodeQL - " \o extractor

\* Mutant of PatchDriver: the driver object is replaced by one holding only the name.
PatchDriverDropSiblings(sarif_json, extractor) ==
    LET runs   == Get(sarif_json, "runs")
        run    == GetIdx(runs, 0)
        tool   == Get(run, "tool")
        driver == Get(tool, "driver")
    IN  IF tool = None \/ driver = None THEN sarif_json
        ELSE JObj(("runs" :> JArr([runs.items EXCEPT ![1] =
                      JObj(("tool" :> JObj(("driver" :> JObj("name" :> JStr(NewName(extractor))))
                                            @@ tool.fields))
                           @@ run.fields)]))
                  @@ sarif_json.fields)

\* The in-place update of update_sarif: runs -> [0] -> tool -> driver, then
\* driver["name"] = new_name.  Panicked when the index assignment panics.
PatchDriver(sarif_json, extractor) ==
    LET runs   == Get(sarif_json, "runs")
        run    == GetIdx(runs, 0)
        tool   == Get(run, "tool")
        driver == Get(tool, "driver")
        patched == IndexAssign(driver, "name", JStr(NewName(extractor)))
    IN  IF tool = None \/ driver = None THEN sarif_json
        ELSE IF patched = Panicked THEN Panicked
        ELSE JObj(("runs" :> JArr([runs.items EXCEPT ![1] =
                      JObj(("tool" :> JObj(("driver" :> patched) @@ tool.fields))
                           @@ run.fields)]))
                  @@ sarif_json.fields)

-----------------------------------------------------------------------------
(* A file's content.  st = "absent": no readable file; "invalid": text that *)
(* is not JSON; "json": text that parses to val.  canonical tells whether   *)
(* the text is exactly what serde_json::to_string emits for val (compact,   *)
(* serde_json's key order and escapes) or some other text of the same       *)
(* value (indented, as the analysis writes it).                            *)

FileAbsent == [st |-> "absent", canonical |-> FALSE, val |-> None]

FileInvalid == [st |-> "invalid", canonical |-> FALSE, val |-> None]

FileJson(canonical, v) == [st |-> "json", canonical |-> canonical, val |-> v]

\* serde_json::to_string(&value): the canonical text of the value.
to_string(v) == FileJson(TRUE, v)

\* Mutant of update_sarif: a file that does not parse is logged and skipped.
update_sarif_ParseSkipped(file, extractor, write) ==
    IF file.st = "absent" THEN [file |-> file, ret |-> "ErrRead"]
    ELSE IF file.st = "invalid" THEN [file |-> file, ret |-> "Ok"]
    ELSE LET patched == PatchDriver(file.val, extractor)
         IN  IF patched = Panicked THEN [file |-> file, ret |-> "Panic"]
             ELSE IF write = "open_failed" THEN [file |-> file, ret |-> "ErrWrite"]
             ELSE IF write = "write_failed" THEN [file |-> FileInvalid, ret |-> "ErrWrite"]
             ELSE [file |-> to_string(patched), ret |-> "Ok"]

\* update_sarif(path, extractor): `file` is the content at path, `write` the
\* outcome of std::fs::write ("ok", "open_failed": nothing written,
\* "write_failed": the file was truncated and not completed).
update_sarif(file, extractor, write) ==
    IF file.st = "absent" THEN [file |-> file, ret |-> "ErrRead"]
    ELSE IF file.st = "invalid" THEN [file |-> file, ret |-> "ErrParse"]
    ELSE LET patched == PatchDriver(file.val, extractor)
         IN  IF patched = Panicked THEN [file |-> file, ret |-> "Panic"]
             ELSE IF write = "open_failed" THEN [file |-> file, ret |-> "ErrWrite"]
             ELSE IF write = "write_failed" THEN [file |-> FileInvalid, ret |-> "ErrWrite"]
             ELSE [file |-> to_string(patched), ret |-> "Ok"]

WriteOutcomes == {"ok", "open_failed", "write_failed"}



-----------------------------------------------------------------------------
(* fetch_releases and fetch_extractor (src/src/extractors.rs).              *)

\* RepositoryReference.reference = None.
NoRef == "<none>"

\* A file of the extractors directory that does not exist.
NoFile == [exists |-> FALSE, owner |-> "", reference |-> ""]

\* An archive file, downloaded from the release `reference` of `owner`.
Archive(owner, reference) == [exists |-> TRUE, owner |-> owner, reference |-> reference]

\* The files of an extracted tree that the permission step is about, as paths
\* below tools/: the two platform executables, a script directly in tools/, a
\* script in a subdirectory of tools/, and a file that is neither.
ToolsPaths == {"linux64/extractor", "osx64/extractor", "run.sh", "sub/run.sh", "README"}

\* The entries std::fs::read_dir(tools_path) yields that are files.
ReadDirFiles == {"run.sh", "README"}

\* path.extension() == "sh"
HasShExtension(p) == p \in {"run.sh", "sub/run.sh"}

\* A tools/ tree: whether the directory exists and the mode of each file (0: no such file).
NoTools == [exists |-> FALSE, mode |-> [p \in ToolsPaths |-> 0]]

\* std::fs::Permissions::from_mode(0o555)
Mode555 == 365

\* set_permissions(path): the file's mode becomes 0o555.
set_permissions(tools, p) == [tools EXCEPT !.mode[p] = Mode555]

\* set_permissions on each of the given files that exists.
SetEach(tools, ps) ==
    [tools EXCEPT !.mode = [p \in ToolsPaths |->
                               IF p \in ps /\ tools.mode[p] # 0
                               THEN set_permissions(tools, p).mode[p] ELSE tools.mode[p]]]

\* update_tools_permisisons(path): nothing without a tools directory; else the
\* two platform executables that exist, then the files of read_dir(tools) with
\* the extension sh.  fail: a set_permissions or the read_dir fails (at the
\* first of them, nothing has been changed).
update_tools_permisisons(tools, fail) ==
    IF ~tools.exists THEN [tools |-> tools, ok |-> TRUE]
    ELSE IF fail THEN [tools |-> tools, ok |-> FALSE]
    ELSE LET linux == SetEach(tools, {"linux64/extractor"})
             macos == SetEach(linux, {"osx64/extractor"})
             scripts == SetEach(macos, {p \in ReadDirFiles : HasShExtension(p)})
         IN  [tools |-> scripts, ok |-> TRUE]

\* An extraction target directory that does not exist.
NoPack == [exists |-> FALSE, owner |-> "", reference |-> "", manifest |-> FALSE,
           tools |-> NoTools]

\* The tree extracted from an archive; manifest: it holds a codeql-extractor.yml;
\* tools: the tools/ directory beside the manifest.
Pack(archive, manifest, tools) ==
    [exists |-> TRUE, owner |-> archive.owner, reference |-> archive.reference,
     manifest |-> manifest, tools |-> tools]

\* One external call: the operation, the asset it is about, the local path
\* ("tar.gz": {name}.tar.gz, "zip": {name}.zip, "": none) it is given.
Call(op, asset, path) == [op |-> op, asset |-> asset, path |-> path]

\* A release asset; its name is stem followed by ext.
Asset(stem, ext) == [stem |-> stem, ext |-> ext]

NoAsset == Asset("", "")

\* a.name.ends_with(suffix)
EndsWith(a, suffix) == a.ext = suffix

\* release.assets.iter().find(|a| a.name.ends_with(".tar.gz") || a.name.ends_with(".zip"))
FindAsset(assets) ==
    LET hits == {i \in 1..Len(assets) : EndsWith(assets[i], ".tar.gz") \/ EndsWith(assets[i], ".zip")}
    IN  IF hits = {} THEN NoAsset
        ELSE assets[CHOOSE i \in hits : \A j \in hits : i <= j]

\* The match on the found asset: (release_asset, file_format), or no suitable asset.
SelectAsset(assets) ==
    LET a == FindAsset(assets)
    IN  IF a # NoAsset /\ EndsWith(a, ".tar.gz") THEN [found |-> TRUE, asset |-> a, file_format |-> "tar"]
        ELSE IF a # NoAsset /\ EndsWith(a, ".zip") THEN [found |-> TRUE, asset |-> a, file_format |-> "zip"]
        ELSE [found |-> FALSE, asset |-> NoAsset, file_format |-> ""]

\* Mutant of fetch_releases: the tag of the reference is not used.
fetch_releases_AlwaysLatest(repository) == Call("get_latest", NoAsset, "")

\* fetch_releases: one lookup, by tag when the reference holds one, else the latest.
fetch_releases(repository) ==
    IF repository.reference # NoRef
    THEN Call("get_by_tag", NoAsset, repository.reference)
    ELSE Call("get_latest", NoAsset, "")

\* Mutant of CacheMiss: only the tarball is looked for.
CacheMissTarOnly(dir) == ~dir.tar.exists

\* !extractor_tarball.exists() && !extractor_zip.exists()
CacheMiss(dir) == ~dir.tar.exists /\ ~dir.zip.exists

\* The result of a stage of fetch_extractor: the directory, the calls made so
\* far, the error returned ("" when the stage went through) and the archive in use.
Stage(dir, calls, err, archive) == [dir |-> dir, calls |-> calls, err |-> err, archive |-> archive]

\* Lines 94-132: the archive to use, downloaded on a cache miss.
ObtainArchive(dir, repository, env) ==
    IF CacheMiss(dir)
    THEN LET lookup == <<fetch_releases(repository)>>
             sel == SelectAsset(env.assets)
             ext == IF sel.file_format = "tar" THEN "tar.gz" ELSE "zip"
             got == lookup \o <<Call("get_asset", sel.asset, "")>>
             down == got \o <<Call("download_asset", sel.asset, ext)>>
             file == Archive(repository.owner, repository.reference)
         IN  IF env.fail = "release" THEN Stage(dir, lookup, "FetchRelease", "")
             ELSE IF ~sel.found THEN Stage(dir, lookup, "NoSuitableAsset", "")
             ELSE IF env.fail = "get_asset" THEN Stage(dir, got, "GetAsset", "")
             ELSE IF env.fail = "download" THEN Stage(dir, down, "Download", "")
             ELSE Stage(IF ext = "tar.gz" THEN [dir EXCEPT !.tar = file]
                                          ELSE [dir EXCEPT !.zip = file],
                        down, "", ext)
    ELSE Stage(dir, <<>>, "", IF dir.tar.exists THEN "tar.gz" ELSE "zip")

\* How `gh attestation verify --owner {owner} {extractor_tarball}` ends when it
\* is run on the directory of stage st: it cannot be spawned, it exits
\* non-zero (the attestation does not verify, or there is no file at the
\* tarball path), or it exits zero.
AttestExit(st, attest, env) ==
    IF ~attest THEN "not_run"
    ELSE IF env.fail = "attest_spawn" THEN "spawn_failed"
    ELSE IF env.fail = "attest" \/ ~st.dir.tar.exists THEN "exit_nonzero"
    ELSE "exit_zero"

\* Mutant of Attest: the exit status of the command is not looked at.
AttestExitIgnored(st, attest, env) ==
    LET exit == AttestExit(st, attest, env)
        calls == st.calls \o <<Call("attestation_verify", NoAsset, "tar.gz")>>
    IN  IF exit = "not_run" THEN st
        ELSE IF exit = "spawn_failed" THEN Stage(st.dir, calls, "AttestationSpawn", st.archive)
        ELSE Stage(st.dir, calls, "", st.archive)

\* Lines 147-168: the attestation gate.  The command is always given the
\* tarball path {name}.tar.gz.
Attest(st, attest, env) ==
    LET exit == AttestExit(st, attest, env)
        calls == st.calls \o <<Call("attestation_verify", NoAsset, "tar.gz")>>
    IN  IF exit = "not_run" THEN st
        ELSE IF exit = "spawn_failed" THEN Stage(st.dir, calls, "AttestationSpawn", st.archive)
        ELSE IF exit = "exit_nonzero" THEN Stage(st.dir, calls, "AttestationFailed", st.archive)
        ELSE Stage(st.dir, calls, "", st.archive)

\* Mutant of Extract: the archive is extracted whether or not the target is there.
ExtractAlways(st, env) ==
    LET calls == st.calls \o <<Call("extract_archive", NoAsset, st.archive)>>
        from == IF st.archive = "tar.gz" THEN st.dir.tar ELSE st.dir.zip
    IN  IF env.fail = "extract" THEN Stage(st.dir, calls, "Extract", st.archive)
        ELSE Stage([st.dir EXCEPT !.pack = Pack(from, env.manifest, env.tools)],
                   calls, "", st.archive)

\* Lines 172-180: extraction, only when the target directory does not exist.
Extract(st, env) ==
    IF st.dir.pack.exists THEN st
    ELSE LET calls == st.calls \o <<Call("extract_archive", NoAsset, st.archive)>>
             from == IF st.archive = "tar.gz" THEN st.dir.tar ELSE st.dir.zip
         IN  IF env.fail = "extract" THEN Stage(st.dir, calls, "Extract", st.archive)
             ELSE Stage([st.dir EXCEPT !.pack = Pack(from, env.manifest, env.tools)],
                        calls, "", st.archive)

\* What fetch_extractor hands back: the directory, the calls made, the
\* return value and how the attestation command ended.
Fetched(dir, calls, ret, attest, tools) ==
    [dir |-> dir, calls |-> calls, ret |-> ret, attest |-> attest, tools |-> tools]

\* How the release lookup of a fetch_extractor on `dir` ends: the API returns
\* a release, or an error (no such release, or a transport error).
LookupOutcome(dir, env) ==
    IF dir.tar.exists \/ dir.zip.exists THEN "not_run"
    ELSE IF env.fail = "release" THEN "failed"
    ELSE "found"

\* Mutant of Locate: a tree without a manifest is an error.
LocateManifestRequired(st, env) ==
    IF env.fail = "glob" THEN [dir |-> st.dir, calls |-> st.calls, ret |-> "Err:Glob"]
    ELSE IF ~st.dir.pack.manifest THEN [dir |-> st.dir, calls |-> st.calls, ret |-> "Err:NoManifest"]
    ELSE IF env.fail = "canonicalize" THEN [dir |-> st.dir, calls |-> st.calls, ret |-> "Err:Canonicalize"]
    ELSE LET calls == st.calls \o <<Call("update_tools_permisisons", NoAsset, "")>>
             r == update_tools_permisisons(st.dir.pack.tools, env.fail = "permissions")
             dir == [st.dir EXCEPT !.pack.tools = r.tools]
         IN  IF ~r.ok
             THEN [dir |-> dir, calls |-> calls, ret |-> "Err:Permissions"]
             ELSE [dir |-> dir, calls |-> calls, ret |-> "Ok:manifest_dir"]

\* Lines 182-212: the manifest search and what is returned.
Locate(st, env) ==
    IF env.fail = "glob" THEN [dir |-> st.dir, calls |-> st.calls, ret |-> "Err:Glob"]
    ELSE IF ~st.dir.pack.manifest THEN [dir |-> st.dir, calls |-> st.calls, ret |-> "Ok:pack"]
    ELSE IF env.fail = "canonicalize" THEN [dir |-> st.dir, calls |-> st.calls, ret |-> "Err:Canonicalize"]
    ELSE LET calls == st.calls \o <<Call("update_tools_permisisons", NoAsset, "")>>
             r == update_tools_permisisons(st.dir.pack.tools, env.fail = "permissions")
             dir == [st.dir EXCEPT !.pack.tools = r.tools]
         IN  IF ~r.ok
             THEN [dir |-> dir, calls |-> calls, ret |-> "Err:Permissions"]
             ELSE [dir |-> dir, calls |-> calls, ret |-> "Ok:manifest_dir"]

\* fetch_extractor(client, repository, attest, output): `dir` is what output
\* holds for repository.name; env gives the outcomes of the external calls.
fetch_extractor(dir, repository, attest, env) ==
    LET a == ObtainArchive(dir, repository, env)
        b == Attest(a, attest, env)
        c == Extract(b, env)
        d == Locate(c, env)
        exit == AttestExit(a, attest, env)
    IN  IF a.err # "" THEN Fetched(a.dir, a.calls, "Err:" \o a.err, "not_run", NoTools)
        ELSE IF b.err # "" THEN Fetched(b.dir, b.calls, "Err:" \o b.err, exit, NoTools)
        ELSE IF c.err # "" THEN Fetched(c.dir, c.calls, "Err:" \o c.err, exit, NoTools)
        ELSE Fetched(d.dir, d.calls, d.ret, exit, c.dir.pack.tools)

-----------------------------------------------------------------------------
(* codeql_download and gh_codeql_download (src/src/codeql.rs).              *)

\* The tier codeql_download starts with: the authenticated install only with a token.
FirstTier(token) == IF token # "" THEN "auth" ELSE "unauth"

\* Mutant of AfterTier: a failed authenticated install is returned as the error.
AfterTierAuthFatal(tier, ok) ==
    IF ok THEN "return"
    ELSE IF tier = "auth" THEN "fatal"
    ELSE IF tier = "unauth" THEN "gh"
    ELSE "fatal"

\* Mutant of AfterTier: a failed GitHub CLI download is logged and the handle returned.
AfterTierGhSwallowed(tier, ok) ==
    IF ok THEN "return"
    ELSE IF tier = "auth" THEN "unauth"
    ELSE IF tier = "unauth" THEN "gh"
    ELSE "return"

\* What codeql_download does after a tier: return the handle on success, fall
\* through to the next tier on a failed install, return the error after the last.
AfterTier(tier, ok) ==
    IF ok THEN "return"
    ELSE IF tier = "auth" THEN "unauth"
    ELSE IF tier = "unauth" THEN "gh"
    ELSE "fatal"

\* One sub-step of gh_codeql_download: the command and how it ended ("0", "1",
\* "spawn_failed"; "true" or "false" for the is_installed query).
GhCall(cmd, exit) == [cmd |-> cmd, exit |-> exit]

\* Action::codeql_version: "latest" when the input is empty.
codeql_version(input) == IF input = "" THEN "latest" ELSE input

\* The sub-steps of gh_codeql_download, in order.
GhCommands(version) ==
    <<"gh extensions install github/gh-codeql", "gh codeql set-version " \o version,
      "gh codeql install-stub", "codeql.is_installed">>

\* The first n sub-steps, all but the last having exited zero.
GhCalls(version, n, exit) ==
    [k \in 1..n |-> GhCall(GhCommands(version)[k], IF k < n THEN "0" ELSE exit)]

\* Mutant of gh_codeql_download: the exit status of install-stub is not looked at.
gh_codeql_download_StubUnchecked(version, env) ==
    IF env = "extension_spawn"
    THEN [calls |-> GhCalls(version, 1, "spawn_failed"),
          err |-> "Failed to execute gh extensions install"]
    ELSE IF env = "extension"
    THEN [calls |-> GhCalls(version, 1, "1"),
          err |-> "GitHub CLI CodeQL extension installation failed"]
    ELSE IF env = "set_version"
    THEN [calls |-> GhCalls(version, 2, "1"), err |-> "Setting CodeQL version failed"]
    ELSE IF env = "install_stub"
    THEN [calls |-> [GhCalls(version, 4, "true") EXCEPT ![3].exit = "1"], err |-> ""]
    ELSE IF env = "not_installed"
    THEN [calls |-> GhCalls(version, 4, "false"), err |-> "CodeQL CLI installation failed"]
    ELSE [calls |-> GhCalls(version, 4, "true"), err |-> ""]

\* gh_codeql_download: the sub-steps run, in order, and the error returned
\* ("" on success).  env names the sub-step that fails ("" for none).
gh_codeql_download(version, env) ==
    IF env = "extension_spawn"
    THEN [calls |-> GhCalls(version, 1, "spawn_failed"),
          err |-> "Failed to execute gh extensions install"]
    ELSE IF env = "extension"
    THEN [calls |-> GhCalls(version, 1, "1"),
          err |-> "GitHub CLI CodeQL extension installation failed"]
    ELSE IF env = "set_version"
    THEN [calls |-> GhCalls(version, 2, "1"), err |-> "Setting CodeQL version failed"]
    ELSE IF env = "install_stub"
    THEN [calls |-> GhCalls(version, 3, "1"), err |-> "CodeQL stub installation failed"]
    ELSE IF env = "not_installed"
    THEN [calls |-> GhCalls(version, 4, "false"), err |-> "CodeQL CLI installation failed"]
    ELSE [calls |-> GhCalls(version, 4, "true"), err |-> ""]

GhFailures == {"extension_spawn", "extension", "set_version", "install_stub", "not_installed"}

\* One entry of install_log: the tier, how it ended ("installed", "install_failed",
\* "client_failed": the API client could not be built, "build_failed": the
\* handle could not be rebuilt after the gh download) and the gh commands it ran.
Tier(tier, result, calls) == [tier |-> tier, result |-> result, calls |-> calls]

-----------------------------------------------------------------------------
(* main (src/src/main.rs).                                                  *)

\* anyhow errors: the contexts added on the way up, outermost first.
Running == [status |-> "running", chain |-> <<>>]

Returned == [status |-> "Ok", chain |-> <<>>]

Err(chain) == [status |-> "Err", chain |-> chain]

\* The extractor names (languages) a manifest can declare, with the display name.
Manifests ==
    {[name |-> "python", display_name |-> "Python"],
     [name |-> "javascript", display_name |-> "JavaScript"]}

Languages == {m.name : m \in Manifests}

\* CodeQLLanguage text lowered: language().to_lowercase().
ToLower(l) == IF l = "Python" THEN "python" ELSE l

\* Mutant of validate_languages: the comparison is case-sensitive.
validate_languages_CaseSensitive(requested, codeql_languages) ==
    \A i \in 1..Len(requested) :
        \E j \in 1..Len(codeql_languages) : requested[i] = codeql_languages[j]

\* Action::validate_languages: Ok (TRUE) iff every requested language is,
\* case-insensitively, one of the supported ones.
validate_languages(requested, codeql_languages) ==
    \A i \in 1..Len(requested) :
        \E j \in 1..Len(codeql_languages) : ToLower(requested[i]) = ToLower(codeql_languages[j])

\* Mutant of OnCreateFailure: a failed creation always aborts.
OnCreateFailureAlwaysFatal(allow_empty_database) == "fatal"

\* main.rs 214-227: what a failed database creation leads to.
OnCreateFailure(allow_empty_database) ==
    IF allow_empty_database THEN "continue" ELSE "fatal"

\* main.rs 255-268: every arm of the match on analyze()'s result falls through
\* to the post-processing.
OnAnalyzeResult(result) == "patch"

\* The documents the analysis writes: a report with a driver name, and one
\* without a tool section.
ProducedDoc ==
    JObj(("version" :> JStr("2.1.0"))
         @@ ("runs" :> JArr(<<JObj(("tool" :> JObj("driver" :> JObj(("name" :> JStr("CodeQL"))
                                                                  @@ ("rules" :> JArr(<<>>)))))
                                   @@ ("results" :> JArr(<<>>)))>>)))

BareDoc == JObj(("version" :> JStr("2.1.0")) @@ ("runs" :> JArr(<<>>)))

\* What analyze() can do: its result and the report file it leaves ("keep":
\* it writes none and the file stays what it was).
\*   Ok          a report was written and read back
\*   SerdeError  the report written is not JSON, or is JSON of another shape
\*   Err         the command failed: no report, or an unfinished one
AnalyzeOutcomes ==
    {[result |-> "Ok", write |-> "produced"], [result |-> "Ok", write |-> "bare"],
     [result |-> "SerdeError", write |-> "invalid"], [result |-> "SerdeError", write |-> "bare"],
     [result |-> "Err", write |-> "keep"], [result |-> "Err", write |-> "invalid"]}

\* The report file after analyze().
AfterAnalyze(file, write) ==
    IF write = "produced" THEN FileJson(FALSE, ProducedDoc)
    ELSE IF write = "bare" THEN FileJson(FALSE, BareDoc)
    ELSE IF write = "invalid" THEN FileInvalid
    ELSE file

\* What load_path reads when the manifest cannot be loaded.
NoManifest == [name |-> "", display_name |-> ""]

\* One pipeline step run for an extractor: the operation, its result and the
\* content of the language's report file after it.
Step(op, result, report) == [op |-> op, result |-> result, report |-> report]

\* A log message: its text and the languages it names.
Message(text, languages) == [text |-> text, languages |-> languages]

\* Nothing emitted yet: the sarif-results output is not set.  ci and
\* sarif_output are the CI variable and the results directory read when it is set.
NoEmitted == [sarif_results |-> "unset", messages |-> <<>>, ci |-> FALSE, sarif_output |-> ""]

\* groupend!(): the end marker of the group that is open.
groupend(log) == Append(log, "endgroup")

\* group!(name): the begin marker of a group.
group(log) == Append(log, "group")

\* The variables of main, when no run of main is under study.
MainIdle ==
    /\ pc = "idle"
    /\ action = [token |-> "", allow_empty_database |-> FALSE, attestation |-> FALSE,
                 sarif_tool_name |-> TRUE, codeql_version |-> "", extractors |-> <<>>, languages |-> <<>>]
    /\ installed = FALSE
    /\ install_log = <<>>
    /\ search_path = <<>>
    /\ extractors = <<>>
    /\ idx = 1
    /\ databases = [l \in Languages |-> "absent"]
    /\ reports = [l \in Languages |-> FileAbsent]
    /\ steps = <<>>
    /\ outcome = Running
    /\ emitted = NoEmitted
    /\ markers = <<>>

\* The update_sarif variables, when no update_sarif is under study.
SarifIdle ==
    /\ sarif = FileAbsent
    /\ sarif_ret = "none"
    /\ sarif_arg = ""
    /\ sarif_old = FileAbsent
    /\ sarif_oldret = "none"
    /\ sarif_oldarg = ""
    /\ sarif_write = "none"
    /\ sarif_calls = 0

-----------------------------------------------------------------------------
(* Action::get_codeql_directories and Action::get_codeql_dir               *)
(* (src/src/action.rs).                                                     *)

\* The candidate .codeql directories: in the working directory, in
\* GITHUB_WORKSPACE, in RUNNER_TEMP, in the system temp directory.
Candidates == {"working_directory", "github_workspace", "runner_temp", "temp_dir"}

\* The state of a candidate: the directory exists; it does not and
\* create_dir_all would succeed ("creatable") or fail ("uncreatable"); or
\* its parent is not known ("unset": the variable is not set,
\* working_directory() fails, the temp directory does not canonicalize).
DirStates == {"exists", "creatable", "uncreatable", "unset"}

\* The candidate is pushed to the list: the working directory's only when
\* .codeql canonicalizes, that is when it exists; the others when their
\* parent is known.
Pushed(env, c) ==
    IF c = "working_directory" THEN env[c] = "exists" ELSE env[c] # "unset"

\* get_codeql_directories: the candidates pushed, in the order of the pushes.
get_codeql_directories(env) ==
    SelectSeq(<<"working_directory", "github_workspace", "runner_temp", "temp_dir">>,
              LAMBDA c : Pushed(env, c))

\* The loop of get_codeql_dir over paths from index i on: the first path
\* that exists or that create_dir_all creates.
RECURSIVE FirstUsable(_, _, _)
FirstUsable(env, paths, i) ==
    IF i > Len(paths) THEN "Err:Failed to create CodeQL directory"
    ELSE IF env[paths[i]] \in {"exists", "creatable"} THEN paths[i]
    ELSE FirstUsable(env, paths, i + 1)

\* get_codeql_dir: the directory returned, or the error.
get_codeql_dir(env) ==
    LET paths == get_codeql_directories(env)
    IN  IF paths = <<>> THEN "Err:No valid CodeQL directories were found"
        ELSE FirstUsable(env, paths, 1)

\* The directories after get_codeql_dir returned ret: the one returned exists.
AfterCodeqlDir(env, ret) ==
    IF ret \in Candidates THEN [env EXCEPT ![ret] = "exists"] ELSE env

\* The get_codeql_dir variables, when no get_codeql_dir is under study.
DirIdle ==
    /\ dir_env = [c \in Candidates |-> "unset"]
    /\ dir_pre = dir_env
    /\ dir_ret = "none"

-----------------------------------------------------------------------------
(* SpecFetch: fetch_extractor called any number of times on one extractors  *)
(* directory.                                                              *)

\* Longest asset list of a release.
MaxAssets == 2

ExtractorDirNames == {"x", "y"}

EmptyDir == [tar |-> NoFile, zip |-> NoFile, pack |-> NoPack]

\* RepositoryReference {owner, name, reference}
Repository(owner, name, reference) == [owner |-> owner, name |-> name, reference |-> reference]

\* The references fetched under SpecFetch: one name, two owners, with and without a tag.
FetchRepos == {Repository("o1", "x", NoRef), Repository("o1", "x", "v1"), Repository("o2", "x", NoRef)}

Assets == {Asset("x", ".tar.gz"), Asset("y", ".tar.gz"), Asset("x", ".zip"), Asset("notes", ".txt")}

AssetLists == UNION {[1..n -> Assets] : n \in 0..MaxAssets}

\* The tools/ tree of an archive: a Linux executable, a script directly in
\* tools/ and one in a subdirectory, all extracted with mode 0o644.
ToolsTree ==
    [exists |-> TRUE,
     mode |-> [p \in ToolsPaths |-> IF p = "osx64/extractor" THEN 0 ELSE 420]]

\* The tools/ trees archives hold: the one above; a macOS executable only
\* (mode 0o755) beside a README; an empty tools/; no tools/ at all.
ToolsTrees ==
    {ToolsTree,
     [exists |-> TRUE,
      mode |-> [p \in ToolsPaths |-> IF p = "osx64/extractor" THEN 493
                                     ELSE IF p = "README" THEN 420 ELSE 0]],
     [exists |-> TRUE, mode |-> [p \in ToolsPaths |-> 0]],
     NoTools}

\* Where an external call of fetch_extractor can fail.
FetchFailures == {"release", "get_asset", "download", "attest_spawn", "attest", "extract",
                  "glob", "canonicalize", "permissions"}

\* The outcomes of the external calls of one fetch_extractor: every asset list
\* with no failure and a manifest in the archive, a tarball or a zip without a
\* manifest, and every single failure on a release holding a tarball.
FetchEnvs ==
    {[fail |-> "", assets |-> l, manifest |-> TRUE, tools |-> ToolsTree] : l \in AssetLists}
    \cup {[fail |-> "", assets |-> <<Asset("x", ".tar.gz")>>, manifest |-> TRUE, tools |-> t] :
            t \in ToolsTrees}
    \cup {[fail |-> "", assets |-> l, manifest |-> FALSE, tools |-> ToolsTree] :
            l \in {<<Asset("x", ".tar.gz")>>, <<Asset("x", ".zip")>>}}
    \cup {[fail |-> f, assets |-> <<Asset("x", ".tar.gz")>>, manifest |-> TRUE, tools |-> ToolsTree] :
            f \in FetchFailures}

\* What a previous run may have left for a name: archives of o1's latest
\* release and the tree extracted from it.
LeftDirs ==
    {[tar |-> t, zip |-> z, pack |-> p] :
        t \in {NoFile, Archive("o1", NoRef)},
        z \in {NoFile, Archive("o1", NoRef)},
        p \in {NoPack, Pack(Archive("o1", NoRef), TRUE, ToolsTree),
               Pack(Archive("o1", NoRef), FALSE, ToolsTree)}}

NoFetchArg == [repository |-> Repository("", "", NoRef), attest |-> FALSE]

\* The asset list of the release a call looked up (none when it looked up none).
LookedUp(dir, env) == IF CacheMiss(dir) /\ env.fail # "release" THEN env.assets ELSE <<>>

InitFetch ==
    /\ MainIdle
    /\ SarifIdle
    /\ DirIdle
    /\ \E d \in LeftDirs : fs = [n \in ExtractorDirNames |-> IF n = "x" THEN d ELSE EmptyDir]
    /\ fetch_ret = "none"
    /\ fetch_calls = <<>>
    /\ fetch_pre = fs
    /\ fetch_arg = NoFetchArg
    /\ fetch_assets = <<>>
    /\ fetch_attest = "not_run"
    /\ fetch_lookup = "not_run"
    /\ fetch_tools = NoTools

\* One call fetch_extractor(client, repository, attest, output).
FetchCall(repository, attest, env) ==
    LET r == fetch_extractor(fs[repository.name], repository, attest, env)
    IN  /\ fs' = [fs EXCEPT ![repository.name] = r.dir]
        /\ fetch_ret' = r.ret
        /\ fetch_calls' = r.calls
        /\ fetch_pre' = fs
        /\ fetch_arg' = [repository |-> repository, attest |-> attest]
        /\ fetch_assets' = LookedUp(fs[repository.name], env)
        /\ fetch_attest' = r.attest
        /\ fetch_lookup' = LookupOutcome(fs[repository.name], env)
        /\ fetch_tools' = r.tools
        /\ UNCHANGED <<main_vars, sarif_vars, dir_vars>>

NextFetch ==
    \E repository \in FetchRepos, attest \in BOOLEAN, env \in FetchEnvs :
        FetchCall(repository, attest, env)

-----------------------------------------------------------------------------
(* SpecSarif: update_sarif applied repeatedly to one report file.           *)

\* Calls of update_sarif made on the file in one behaviour.
MaxSarifCalls == 2

\* The map f with key -> v added when v is present.
WithOpt(key, v, f) == IF v = None THEN f ELSE (key :> v) @@ f

\* Values found at runs[0].tool.driver (None: the key is missing).
Drivers ==
    {None, JNull, JStr("d"), JNum("1"), JBool("true"), JArr(<<>>)}
    \cup {JObj(WithOpt("name", n, WithOpt("rules", r, NoFields))) :
            n \in {None, JStr("CodeQL")}, r \in {None, JArr(<<JStr("rule1")>>)}}

\* Values found at runs[0].tool.
Tools ==
    {None, JStr("t")}
    \cup {JObj(WithOpt("driver", d, NoFields)) : d \in Drivers}
    \cup {JObj(("extensions" :> JArr(<<>>)) @@ ("driver" :> JObj("name" :> JStr("CodeQL"))))}

\* Values found at runs[0].
Runs0 ==
    {JNull}
    \cup {JObj(WithOpt("tool", t, WithOpt("results", r, NoFields))) :
            t \in Tools, r \in {None, JArr(<<JStr("result1")>>)}}

\* A second run, with a driver name of its own.
OtherRun ==
    JObj(("tool" :> JObj("driver" :> JObj("name" :> JStr("Other"))))
         @@ ("results" :> JArr(<<>>)))

\* Values found at runs.
RunsValues ==
    {None, JObj(NoFields), JArr(<<>>)}
    \cup {JArr(<<r>>) : r \in Runs0}
    \cup {JArr(<<r, OtherRun>>) : r \in Runs0}

\* The parseable documents.
Docs ==
    {JArr(<<>>)}
    \cup {JObj(WithOpt("runs", rs, "version" :> JStr("2.1.0"))) : rs \in RunsValues}

\* The report files update_sarif may meet.
Files ==
    {FileAbsent, FileInvalid} \cup {FileJson(c, d) : c \in BOOLEAN, d \in Docs}

ExtractorNames == {"a", "b"}

\* The fetch_extractor variables, when no fetch_extractor is under study.
FetchIdle ==
    /\ fs = [n \in ExtractorDirNames |-> EmptyDir]
    /\ fetch_ret = "none"
    /\ fetch_calls = <<>>
    /\ fetch_pre = fs
    /\ fetch_arg = NoFetchArg
    /\ fetch_assets = <<>>
    /\ fetch_attest = "not_run"
    /\ fetch_lookup = "not_run"
    /\ fetch_tools = NoTools

InitSarif ==
    /\ MainIdle
    /\ FetchIdle
    /\ DirIdle
    /\ sarif \in Files
    /\ sarif_ret = "none"
    /\ sarif_arg = ""
    /\ sarif_old = FileAbsent
    /\ sarif_oldret = "none"
    /\ sarif_oldarg = ""
    /\ sarif_write = "none"
    /\ sarif_calls = 0

\* One call update_sarif(path, extractor).
SarifCall(extractor, write) ==
    /\ sarif_calls < MaxSarifCalls
    /\ sarif_ret # "Panic"
    /\ LET r == update_sarif(sarif, extractor, write)
       IN  /\ sarif' = r.file
           /\ sarif_ret' = r.ret
    /\ sarif_arg' = extractor
    /\ sarif_old' = sarif
    /\ sarif_oldret' = sarif_ret
    /\ sarif_oldarg' = sarif_arg
    /\ sarif_write' = write
    /\ sarif_calls' = sarif_calls + 1
    /\ UNCHANGED <<main_vars, fetch_vars, dir_vars>>

NextSarif == \E extractor \in ExtractorNames, write \in WriteOutcomes : SarifCall(extractor, write)

vars == <<main_vars, fetch_vars, sarif_vars, dir_vars>>

SpecSarif == InitSarif /\ [][NextSarif]_vars

SpecFetch == InitFetch /\ [][NextFetch]_vars

-----------------------------------------------------------------------------
(* SpecDir: get_codeql_dir called any number of times, directories being    *)
(* removed in between.                                                      *)

InitDir ==
    /\ MainIdle
    /\ FetchIdle
    /\ SarifIdle
    /\ dir_env \in [Candidates -> DirStates]
    /\ dir_pre = dir_env
    /\ dir_ret = "none"

\* One call of get_codeql_dir().
GetCodeqlDir ==
    /\ dir_ret' = get_codeql_dir(dir_env)
    /\ dir_pre' = dir_env
    /\ dir_env' = AfterCodeqlDir(dir_env, get_codeql_dir(dir_env))
    /\ UNCHANGED <<main_vars, fetch_vars, sarif_vars>>

\* Between two calls a directory that exists is removed.
RemoveCodeqlDir(c) ==
    /\ dir_ret # "none"
    /\ dir_env[c] = "exists"
    /\ dir_env' = [dir_env EXCEPT ![c] = "creatable"]
    /\ dir_pre' = dir_env'
    /\ dir_ret' = "none"
    /\ UNCHANGED <<main_vars, fetch_vars, sarif_vars>>

NextDir == GetCodeqlDir \/ \E c \in Candidates : RemoveCodeqlDir(c)

SpecDir == InitDir /\ [][NextDir]_vars

-----------------------------------------------------------------------------
(* Spec: one run of main.                                                   *)

\* Repository::parse on an entry of the extractors input: a reference without
\* an owner part ("x" instead of "o/x") does not parse.
ParseOk(raw) == raw.owner # "" /\ raw.name # ""

\* The repository the action runs in (GITHUB_REPOSITORY).
CurrentRepository == Repository("o1", "x", NoRef)

\* Action::extractor_repository: the current repository when no extractor is
\* given; else the entries that parse, in order, the others being logged and
\* left out (filter_map).
extractor_repository(raws) ==
    IF raws = <<>> THEN <<CurrentRepository>>
    ELSE SelectSeq(raws, ParseOk)

\* An entry of the extractors input that does not parse.
BadRef == Repository("", "x", NoRef)

\* The Action inputs of a run with the defaults of sarif-tool-name (true) and
\* codeql-version (empty: latest).
DefaultActions ==
    [token : {"", "t"},
     allow_empty_database : BOOLEAN,
     attestation : BOOLEAN,
     sarif_tool_name : {TRUE},
     codeql_version : {""},
     extractors : {<<Repository("o1", "x", NoRef)>>,
                   <<Repository("o1", "x", NoRef), Repository("o2", "y", "v1")>>,
                   <<BadRef, Repository("o2", "y", "v1")>>},
     languages : {<<>>, <<"Python">>, <<"go">>}]

\* The Action inputs of a run: the above, and runs of one extractor with
\* sarif-tool-name false or with a CodeQL version asked for.
Actions ==
    DefaultActions
    \cup {[a EXCEPT !.sarif_tool_name = FALSE] :
            a \in {b \in DefaultActions : Len(b.extractors) = 1 /\ b.languages = <<>>
                                           /\ ~b.attestation}}
    \cup {[a EXCEPT !.codeql_version = "2.20.0"] :
            a \in {b \in DefaultActions : Len(b.extractors) = 1 /\ b.languages = <<>>
                                           /\ ~b.attestation}}

\* What an earlier run left in the extractors directory: nothing, or x's
\* tarball and extracted tree.
LeftExtractors ==
    {[n \in ExtractorDirNames |-> EmptyDir],
     [n \in ExtractorDirNames |->
        IF n = "x" THEN [tar |-> Archive("o1", NoRef), zip |-> NoFile,
                         pack |-> Pack(Archive("o1", NoRef), TRUE, ToolsTree)]
        ELSE EmptyDir]}

\* A report an earlier run left, patched then.
LeftReport == FileJson(TRUE, PatchDriver(ProducedDoc, "Python"))

Init ==
    /\ pc = "start"
    /\ action \in Actions
    /\ installed \in BOOLEAN
    /\ install_log = <<>>
    /\ search_path = <<>>
    /\ extractors = <<>>
    /\ idx = 1
    /\ \E left \in BOOLEAN :
          /\ databases = [l \in Languages |-> IF left THEN "left" ELSE "absent"]
          /\ reports = [l \in Languages |-> IF left THEN LeftReport ELSE FileAbsent]
    /\ steps = <<>>
    /\ outcome = Running
    /\ emitted = NoEmitted
    /\ markers = <<>>
    /\ fs \in LeftExtractors
    /\ fetch_ret = "none"
    /\ fetch_calls = <<>>
    /\ fetch_pre = fs
    /\ fetch_arg = NoFetchArg
    /\ fetch_assets = <<>>
    /\ fetch_attest = "not_run"
    /\ fetch_lookup = "not_run"
    /\ fetch_tools = NoTools
    /\ SarifIdle
    /\ DirIdle

\* main's extractor_repos: the references the fetch loop goes through.
ExtractorRepos == extractor_repository(action.extractors)

\* main returns the error: `?` or `return Err(..)`.
Fatal(chain) ==
    /\ pc' = "fatal"
    /\ outcome' = Err(chain)

\* Mutant of OnIsInstalled: the install tiers are gone through whether or not
\* the tool is there.
OnIsInstalledReinstall(is_installed, token) == FirstTier(token)

\* codeql_download 23-63: with the tool installed nothing is installed and the
\* handle is returned; otherwise the first install tier is tried.
OnIsInstalled(is_installed, token) ==
    IF is_installed THEN "packs" ELSE FirstTier(token)

\* codeql_download 17-26: build the handle and ask whether the tool is installed.
DownloadCheck(build_ok) ==
    /\ pc = "start"
    /\ IF ~build_ok
       THEN Fatal(<<"Failed to set up CodeQL", "Failed to create CodeQL instance">>)
       ELSE /\ pc' = OnIsInstalled(installed, action.token)
            /\ UNCHANGED outcome
    /\ markers' = group(markers)
    /\ UNCHANGED <<action, emitted, installed, install_log, search_path, extractors, idx,
                   databases, reports, steps, fetch_vars, sarif_vars, dir_vars>>

\* codeql_download 28-48: one API install tier, `tier` being "auth" or "unauth".
\* env: "installed", "install_failed", or "client_failed" (the client builder failed).
InstallTier(tier, env) ==
    /\ install_log' = Append(install_log, Tier(tier, env, <<>>))
    /\ IF env = "client_failed"
       THEN /\ Fatal(<<"Failed to set up CodeQL", "octocrab client">>)
            /\ UNCHANGED installed
       ELSE LET next == AfterTier(tier, env = "installed")
            IN  IF next = "fatal"
                THEN /\ Fatal(<<"Failed to set up CodeQL", "install failed">>)
                     /\ UNCHANGED installed
                ELSE /\ pc' = IF next = "return" THEN "packs" ELSE next
                     /\ installed' = (installed \/ env = "installed")
                     /\ UNCHANGED outcome
    /\ UNCHANGED <<action, markers, emitted, search_path, extractors, idx, databases, reports, steps,
                   fetch_vars, sarif_vars, dir_vars>>

\* codeql_download 28-38: the install with the token's client.
TryAuthenticated(env) ==
    /\ pc = "auth"
    /\ InstallTier("auth", env)

\* codeql_download 40-48: the install with the client without a token.
TryUnauthenticated(env) ==
    /\ pc = "unauth"
    /\ InstallTier("unauth", env)

\* codeql_download 50-60: the GitHub CLI fallback and the rebuild of the handle.
\* env: a sub-step of GhFailures failing, "build_failed", or "" for success.
FallbackExternalCLI(env) ==
    /\ pc = "gh"
    /\ LET r == gh_codeql_download(codeql_version(action.codeql_version), env)
           result == IF r.err # "" THEN "install_failed"
                     ELSE IF env = "build_failed" THEN "build_failed" ELSE "installed"
           next == AfterTier("gh", r.err = "")
       IN  /\ install_log' = Append(install_log, Tier("gh", result, r.calls))
           /\ IF next = "fatal"
              THEN /\ Fatal(<<"Failed to set up CodeQL",
                              "Failed to download CodeQL using GitHub CLI", r.err>>)
                   /\ UNCHANGED installed
              ELSE IF result = "build_failed"
              THEN /\ Fatal(<<"Failed to set up CodeQL",
                              "Failed to create CodeQL instance after GitHub CLI installation">>)
                   /\ UNCHANGED installed
              ELSE /\ pc' = "packs"
                   /\ installed' = (installed \/ result = "installed")
                   /\ UNCHANGED outcome
    /\ UNCHANGED <<action, markers, emitted, search_path, extractors, idx, databases, reports, steps,
                   fetch_vars, sarif_vars, dir_vars>>

\* main 57-84: install the packs, read the extractor repositories, create the
\* extractors directory.  env: "ok" or the call that fails.
PrepareExtractors(env) ==
    /\ pc = "packs"
    /\ IF env = "ok"
       THEN /\ pc' = IF Len(ExtractorRepos) = 0 THEN "languages" ELSE "fetch"
            /\ UNCHANGED outcome
       ELSE Fatal(<<env>>)
    /\ idx' = 1
    /\ markers' = IF env = "install_packs" THEN markers ELSE group(groupend(markers))
    /\ UNCHANGED <<action, emitted, installed, install_log, search_path, extractors,
                   databases, reports, steps, fetch_vars, sarif_vars, dir_vars>>

\* Mutant of append_search_path: the handle keeps only the latest path.
append_search_path_Replace(paths, path) == <<path>>

\* main 119-122: codeql.append_search_path(&extractor_path) adds the path of
\* the fetched extractor to the handle's list.
append_search_path(paths, path) == Append(paths, path)

\* Mutant of FetchNext: an extractor that cannot be fetched or loaded is left
\* out and the loop goes on.
FetchNextSkipsFailed(env, load) ==
    /\ pc = "fetch"
    /\ LET repo == ExtractorRepos[idx]
           r == fetch_extractor(fs[repo.name], repo, action.attestation, env)
           fetched == r.ret \in {"Ok:pack", "Ok:manifest_dir"}
           loaded == r.ret = "Ok:manifest_dir" /\ load \in Manifests
       IN  /\ fs' = [fs EXCEPT ![repo.name] = r.dir]
           /\ fetch_ret' = r.ret
           /\ fetch_calls' = r.calls
           /\ fetch_pre' = fs
           /\ fetch_arg' = [repository |-> repo, attest |-> action.attestation]
           /\ fetch_assets' = LookedUp(fs[repo.name], env)
           /\ fetch_attest' = r.attest
           /\ fetch_lookup' = LookupOutcome(fs[repo.name], env)
           /\ fetch_tools' = r.tools
           /\ search_path' = IF fetched
                             THEN append_search_path(search_path, [name |-> repo.name, dir |-> r.ret])
                             ELSE search_path
           /\ extractors' = IF fetched /\ loaded
                            THEN Append(extractors,
                                        [name |-> load.name, display_name |-> load.display_name,
                                         reporef |-> repo])
                            ELSE extractors
           /\ idx' = IF idx < Len(ExtractorRepos) THEN idx + 1 ELSE 1
           /\ pc' = IF idx < Len(ExtractorRepos) THEN "fetch" ELSE "languages"
           /\ UNCHANGED outcome
    /\ UNCHANGED <<action, markers, emitted, installed, install_log, databases, reports, steps, sarif_vars, dir_vars>>

\* main 86-147: one iteration of the fetch loop: fetch_extractor, append the
\* search path, load the extractor and push it.  load is the manifest that
\* load_path reads, or NoManifest when it fails.
FetchNext(env, load) ==
    /\ pc = "fetch"
    /\ LET repo == ExtractorRepos[idx]
           r == fetch_extractor(fs[repo.name], repo, action.attestation, env)
           fetched == r.ret \in {"Ok:pack", "Ok:manifest_dir"}
           loaded == r.ret = "Ok:manifest_dir" /\ load \in Manifests
       IN  /\ fs' = [fs EXCEPT ![repo.name] = r.dir]
           /\ fetch_ret' = r.ret
           /\ fetch_calls' = r.calls
           /\ fetch_pre' = fs
           /\ fetch_arg' = [repository |-> repo, attest |-> action.attestation]
           /\ fetch_assets' = LookedUp(fs[repo.name], env)
           /\ fetch_attest' = r.attest
           /\ fetch_lookup' = LookupOutcome(fs[repo.name], env)
           /\ fetch_tools' = r.tools
           /\ search_path' = IF fetched
                             THEN append_search_path(search_path, [name |-> repo.name, dir |-> r.ret])
                             ELSE search_path
           /\ IF ~fetched THEN /\ Fatal(<<"Failed to fetch extractor", r.ret>>)
                               /\ UNCHANGED <<extractors, idx>>
              ELSE IF ~loaded THEN /\ Fatal(<<"Failed to load extractor">>)
                                   /\ UNCHANGED <<extractors, idx>>
              ELSE /\ extractors' = Append(extractors,
                                           [name |-> load.name, display_name |-> load.display_name,
                                            reporef |-> repo])
                   /\ idx' = IF idx < Len(ExtractorRepos) THEN idx + 1 ELSE 1
                   /\ pc' = IF idx < Len(ExtractorRepos) THEN "fetch" ELSE "languages"
                   /\ UNCHANGED outcome
    /\ UNCHANGED <<action, markers, emitted, installed, install_log, databases, reports, steps, sarif_vars, dir_vars>>

\* The languages codeql.get_languages() reports: those of the loaded extractors.
SupportedLanguages == [i \in 1..Len(extractors) |-> extractors[i].name]

\* main 149-170: get the languages, validate the requested ones, create the
\* results directory.  env: "ok" or the call that fails.
Validate(env) ==
    /\ pc = "languages"
    /\ IF env = "Failed to get languages" THEN Fatal(<<env>>)
       ELSE IF Len(action.languages) # 0 /\ ~validate_languages(action.languages, SupportedLanguages)
       THEN Fatal(<<"Failed to validate languages">>)
       ELSE IF env = "Failed to create results directory" THEN Fatal(<<env>>)
       ELSE /\ pc' = IF Len(extractors) = 0 THEN "finalize" ELSE "create"
            /\ UNCHANGED outcome
    /\ idx' = 1
    /\ markers' = IF pc' = "fatal" THEN markers ELSE groupend(markers)
    /\ UNCHANGED <<action, emitted, installed, install_log, search_path, extractors,
                   databases, reports, steps, fetch_vars, sarif_vars, dir_vars>>

\* The end of one iteration of the pipeline loop: the next extractor, or out.
NextExtractor ==
    /\ idx' = IF idx < Len(extractors) THEN idx + 1 ELSE idx
    /\ pc' = IF idx < Len(extractors) THEN "create" ELSE "finalize"
    /\ UNCHANGED outcome

\* steps with one more step for the extractor at idx.
Log(step) ==
    IF Len(steps) < idx THEN Append(steps, <<step>>)
    ELSE [steps EXCEPT ![idx] = Append(@, step)]

\* Mutant of remove_dir_all: the directory is left as it is.
remove_dir_all_Skipped(dir) == dir

\* main 182-186: std::fs::remove_dir_all(&database_path) on an existing
\* directory leaves none behind.
remove_dir_all(dir) == "absent"

\* main 205-228: codeql database create in the directory as it is when the
\* call is made; contents already there end up under the new database.
create_database(dir, ok) ==
    IF dir # "absent" THEN "overwritten"
    ELSE IF ok THEN "created" ELSE "failed"

\* main 172-228: remove the database directory if there is one, build the
\* database, create it.  env: "ok" or the call that fails.
CreateDatabase(env) ==
    /\ pc = "create"
    /\ env = "remove_failed" => databases[extractors[idx].name] # "absent"
    /\ LET language == extractors[idx].name
           dir == IF databases[language] # "absent" THEN remove_dir_all(databases[language])
                  ELSE databases[language]
       IN  IF env = "remove_failed"
           THEN /\ Fatal(<<"Failed to remove database directory">>)
                /\ UNCHANGED <<databases, steps, idx>>
           ELSE IF env = "build_failed"
           THEN /\ Fatal(<<"Failed to create database">>)
                /\ databases' = [databases EXCEPT ![language] = dir]
                /\ UNCHANGED <<steps, idx>>
           ELSE IF env = "ok"
           THEN /\ databases' = [databases EXCEPT ![language] = create_database(dir, TRUE)]
                /\ steps' = Log(Step("create", "Ok", reports[language]))
                /\ pc' = "analyze"
                /\ UNCHANGED <<outcome, idx>>
           ELSE /\ databases' = [databases EXCEPT ![language] = create_database(dir, FALSE)]
                /\ steps' = Log(Step("create", "Err", reports[language]))
                /\ IF OnCreateFailure(action.allow_empty_database) = "continue"
                   THEN NextExtractor
                   ELSE /\ Fatal(<<"Failed to create database: create">>)
                        /\ UNCHANGED idx
    /\ markers' = group(markers)
    /\ UNCHANGED <<action, emitted, installed, install_log, search_path, extractors, reports,
                   fetch_vars, sarif_vars, dir_vars>>

\* main 230-268: parse the query reference and run the analysis.
Analyze(queries_ok, env) ==
    /\ pc = "analyze"
    /\ LET language == extractors[idx].name
           report == AfterAnalyze(reports[language], env.write)
       IN  IF ~queries_ok
           THEN /\ Fatal(<<"Failed to parse queries">>)
                /\ UNCHANGED <<databases, reports, steps>>
           ELSE /\ reports' = [reports EXCEPT ![language] = report]
                /\ databases' = [databases EXCEPT ![language] =
                                    IF env.result = "Ok" THEN "analyzed" ELSE @]
                /\ steps' = Log(Step("analyze", env.result, report))
                /\ pc' = OnAnalyzeResult(env.result)
                /\ UNCHANGED outcome
    /\ markers' = IF queries_ok THEN group(groupend(markers)) ELSE markers
    /\ UNCHANGED <<action, emitted, installed, install_log, search_path, extractors, idx,
                   fetch_vars, sarif_vars, dir_vars>>

\* main 270-273: update_sarif on the language's report, `?` on its result.
\* The call is recorded in the update_sarif variables.
PatchReport(write) ==
    /\ pc = "patch"
    /\ LET language == extractors[idx].name
           r == update_sarif(reports[language], extractors[idx].display_name, write)
       IN  /\ reports' = [reports EXCEPT ![language] = r.file]
           /\ steps' = Log(Step("patch", r.ret, r.file))
           /\ sarif' = r.file
           /\ sarif_ret' = r.ret
           /\ sarif_arg' = extractors[idx].display_name
           /\ sarif_old' = reports[language]
           /\ IF r.ret = "Ok" THEN pc' = "reload" /\ UNCHANGED outcome
              ELSE Fatal(<<"Failed to update SARIF file with extractor information", r.ret>>)
    /\ sarif_oldret' = sarif_ret
    /\ sarif_oldarg' = sarif_arg
    /\ sarif_write' = write
    /\ sarif_calls' = sarif_calls + 1
    /\ UNCHANGED <<action, markers, emitted, installed, install_log, search_path, extractors, idx,
                   databases, fetch_vars, dir_vars>>

\* main 275-283: reload the database, end of the iteration.
Reload(ok) ==
    /\ pc = "reload"
    /\ LET language == extractors[idx].name
       IN  /\ steps' = Log(Step("reload", IF ok THEN "Ok" ELSE "Err", reports[language]))
           /\ IF ok THEN NextExtractor
              ELSE Fatal(<<"reload">>) /\ UNCHANGED idx
    /\ markers' = IF ok THEN groupend(markers) ELSE markers
    /\ UNCHANGED <<action, emitted, installed, install_log, search_path, extractors,
                   databases, reports, fetch_vars, sarif_vars, dir_vars>>

\* The working directory, and the results directories {codeql_dir}/results a
\* run can have: under the working directory, or under another root.
Cwd == "/w"

ResultsDirs == {"/w/.codeql/results", "/tmp/.codeql/results"}

\* sarif_output.strip_prefix(&cwd): the rest of the path after the working
\* directory, or an error ("") when the path is not under it.
strip_prefix(path, base) ==
    IF base = Cwd /\ path = "/w/.codeql/results" THEN ".codeql/results" ELSE ""

\* Mutant of sarif_results: the CI variable is not looked at.
sarif_results_AlwaysRelative(ci, sarif_output) ==
    IF strip_prefix(sarif_output, Cwd) # "" THEN strip_prefix(sarif_output, Cwd)
    ELSE sarif_output

\* main 288-299: the value given to set_sarif_results.
sarif_results(ci, sarif_output) ==
    IF ci
    THEN IF strip_prefix(sarif_output, Cwd) # "" THEN strip_prefix(sarif_output, Cwd)
         ELSE sarif_output
    ELSE sarif_output

\* main 285-303: set the sarif-results output, log the end, return Ok.
\* ci: the CI variable is set; sarif_output: the results directory.
Finalize(ci, sarif_output) ==
    /\ pc = "finalize"
    /\ pc' = "done"
    /\ outcome' = Returned
    /\ emitted' = [sarif_results |-> sarif_results(ci, sarif_output),
                   messages |-> <<Message("All databases created and analyzed", {})>>,
                   ci |-> ci, sarif_output |-> sarif_output]
    /\ UNCHANGED <<action, markers, installed, install_log, search_path, extractors, idx,
                   databases, reports, steps, fetch_vars, sarif_vars, dir_vars>>

\* The outcomes of fetch_extractor's external calls in a run of main.
MainFetchEnvs ==
    {[fail |-> "", assets |-> <<Asset("x", ".tar.gz")>>, manifest |-> TRUE, tools |-> ToolsTree],
     [fail |-> "", assets |-> <<Asset("x", ".zip")>>, manifest |-> FALSE, tools |-> ToolsTree],
     [fail |-> "download", assets |-> <<Asset("x", ".tar.gz")>>, manifest |-> TRUE,
      tools |-> ToolsTree]}

Next ==
    \/ \E ok \in BOOLEAN : DownloadCheck(ok)
    \/ \E env \in {"installed", "install_failed", "client_failed"} : TryAuthenticated(env)
    \/ \E env \in {"installed", "install_failed", "client_failed"} : TryUnauthenticated(env)
    \/ \E env \in GhFailures \cup {"", "build_failed"} : FallbackExternalCLI(env)
    \/ \E env \in {"ok", "install_packs", "extractor_repository", "create_dir_all"} :
          PrepareExtractors(env)
    \/ \E env \in MainFetchEnvs, load \in Manifests \cup {NoManifest} : FetchNext(env, load)
    \/ \E env \in {"ok", "Failed to get languages", "Failed to create results directory"} :
          Validate(env)
    \/ \E env \in {"ok", "remove_failed", "build_failed", "create_failed"} : CreateDatabase(env)
    \/ \E ok \in BOOLEAN, env \in AnalyzeOutcomes : Analyze(ok, env)
    \/ \E write \in WriteOutcomes : PatchReport(write)
    \/ \E ok \in BOOLEAN : Reload(ok)
    \/ \E ci \in BOOLEAN, sarif_output \in ResultsDirs : Finalize(ci, sarif_output)

Spec == Init /\ [][Next]_vars

-----------------------------------------------------------------------------
(* Properties of update_sarif, checked under SpecSarif.                     *)

\* runs[0].tool.driver of a document (None when the path is missing at any level).
DriverOf(doc) == Get(Get(GetIdx(Get(doc, "runs"), 0), "tool"), "driver")

\* The last call was made on a parseable document.
SarifCalledOnJson == sarif_calls > 0 /\ sarif_old.st = "json"

\* C3 (as stated): applied to a parseable document in which runs[0].tool.driver
\* is missing at some level, with the filesystem accepting the write,
\* update_sarif returns success and the file is byte-for-byte what it was.
C3_MissingDriverFileUntouched ==
    (SarifCalledOnJson /\ DriverOf(sarif_old.val) = None /\ sarif_write = "ok")
        => (sarif_ret = "Ok" /\ sarif = sarif_old)

\* C34 (as stated): on every document that parses, whatever is found at
\* runs[0].tool.driver (an object, a string, a number, a boolean, an array or
\* null), update_sarif returns Ok or an error and does not panic.
C34_NeverPanics ==
    SarifCalledOnJson => sarif_ret \in {"Ok", "ErrWrite"}

\* update_sarif returns on the documents whose driver is an object or null.
C34_ReturnsOnObjectDriver ==
    (SarifCalledOnJson /\ DriverOf(sarif_old.val).kind \in {"none", "null", "object"})
        => sarif_ret \in {"Ok", "ErrWrite"}

\* C4: update_sarif overwrites the driver name: after a successful call on a
\* document holding runs[0].tool.driver the name is exactly "CodeQL - " followed
\* by the last argument, whatever was applied before; and a second successful
\* call with the same argument leaves the file as the first one left it.
C4_NameOverwritten ==
    /\ (SarifCalledOnJson /\ DriverOf(sarif_old.val) # None /\ sarif_ret = "Ok")
          => Get(DriverOf(sarif.val), "name") = JStr("CodeQL - " \o sarif_arg)
    /\ (sarif_calls >= 2 /\ sarif_ret = "Ok" /\ sarif_oldret = "Ok" /\ sarif_oldarg = sarif_arg)
          => sarif = sarif_old

\* C4 witness: a patch with "a" then a patch with "b", both successful, on a
\* document whose driver already had a name.
C4_Witness ==
    /\ sarif_calls = 2 /\ sarif_ret = "Ok" /\ sarif_oldret = "Ok"
    /\ sarif_oldarg = "a" /\ sarif_arg = "b"
    /\ Get(DriverOf(sarif_old.val), "name") = JStr("CodeQL - a")
    /\ Get(DriverOf(sarif.val), "name") = JStr("CodeQL - b")

\* Two JSON values agree except (possibly) under one key of an object.
SameExceptKey(old, new, key) ==
    /\ new.kind = old.kind /\ new.str = old.str /\ new.items = old.items
    /\ DOMAIN new.fields \ {key} = DOMAIN old.fields \ {key}
    /\ \A k \in DOMAIN old.fields \ {key} : new.fields[k] = old.fields[k]

\* Two JSON values agree except (possibly) in the first element of an array.
SameExceptFirst(old, new) ==
    /\ new.kind = old.kind /\ new.str = old.str /\ new.fields = old.fields
    /\ Len(new.items) = Len(old.items)
    /\ \A i \in 2..Len(old.items) : new.items[i] = old.items[i]

\* C5: after a successful update_sarif every field other than
\* runs[0].tool.driver.name has the value it had before: the other fields of
\* the root, the runs after the first, the other fields of runs[0] (results),
\* of its tool and of its driver (rules).
C5_OtherFieldsKept ==
    (SarifCalledOnJson /\ sarif_ret = "Ok") =>
        LET old == sarif_old.val
            new == sarif.val
        IN  /\ sarif.st = "json"
            /\ IF DriverOf(old) = None THEN new = old
               ELSE /\ SameExceptKey(old, new, "runs")
                    /\ SameExceptFirst(Get(old, "runs"), Get(new, "runs"))
                    /\ SameExceptKey(GetIdx(Get(old, "runs"), 0), GetIdx(Get(new, "runs"), 0), "tool")
                    /\ SameExceptKey(Get(GetIdx(Get(old, "runs"), 0), "tool"),
                                     Get(GetIdx(Get(new, "runs"), 0), "tool"), "driver")
                    /\ DOMAIN DriverOf(new).fields \ {"name"} = DOMAIN DriverOf(old).fields \ {"name"}
                    /\ \A k \in DOMAIN DriverOf(old).fields \ {"name"} :
                           DriverOf(new).fields[k] = DriverOf(old).fields[k]

\* C5 witness: a successful patch of a document with a second run, results in
\* runs[0] and rules beside the driver name.
C5_Witness ==
    /\ SarifCalledOnJson /\ sarif_ret = "Ok"
    /\ Len(Get(sarif_old.val, "runs").items) = 2
    /\ Get(GetIdx(Get(sarif_old.val, "runs"), 0), "results") # None
    /\ Get(DriverOf(sarif_old.val), "rules") # None
    /\ Get(DriverOf(sarif_old.val), "name") = JStr("CodeQL")
    /\ Get(DriverOf(sarif.val), "name") = JStr("CodeQL - a")

-----------------------------------------------------------------------------
(* Properties of fetch_extractor, checked under SpecFetch.                  *)

\* The directory entry the last call worked on, before and after the call.
FetchedBefore == fetch_pre[fetch_arg.repository.name]

FetchedAfter == fs[fetch_arg.repository.name]

\* The last call found no archive and its release lookup returned a release.
FetchLookedUp ==
    /\ fetch_ret # "none"
    /\ ~FetchedBefore.tar.exists /\ ~FetchedBefore.zip.exists
    /\ fetch_ret # "Err:FetchRelease"

\* The first asset of the list with the given suffix (NoAsset when there is none).
FirstWith(assets, suffix) ==
    LET hits == {i \in 1..Len(assets) : assets[i].ext = suffix}
    IN  IF hits = {} THEN NoAsset ELSE assets[CHOOSE i \in hits : \A j \in hits : i <= j]

\* The asset the tie-break "tar preferred" selects.
TarPreferred(assets) ==
    IF FirstWith(assets, ".tar.gz") # NoAsset THEN FirstWith(assets, ".tar.gz")
    ELSE FirstWith(assets, ".zip")

\* The calls of the last fetch_extractor with one of the given operations.
FetchCallsOf(ops) == {i \in 1..Len(fetch_calls) : fetch_calls[i].op \in ops}

\* C1 (as stated): on a cache miss the asset fetched is the first one ending in
\* .tar.gz if the release has one, whatever its place in the list, and only
\* otherwise the first one ending in .zip; with neither, the fetch fails with
\* the no-suitable-asset error and nothing is downloaded or extracted.
C1_TarballPreferred ==
    FetchLookedUp =>
        IF TarPreferred(fetch_assets) = NoAsset
        THEN /\ fetch_ret = "Err:NoSuitableAsset"
             /\ FetchCallsOf({"get_asset", "download_asset", "extract_archive"}) = {}
             /\ FetchedAfter = FetchedBefore
        ELSE /\ FetchCallsOf({"get_asset"}) # {}
             /\ \A i \in FetchCallsOf({"get_asset", "download_asset"}) :
                    fetch_calls[i].asset = TarPreferred(fetch_assets)

\* The operations that go to the releases API or download an asset.
NetworkOps == {"get_by_tag", "get_latest", "get_asset", "download_asset"}

\* C2: a fetch_extractor that finds {name}.tar.gz or {name}.zip in the output
\* directory makes no release lookup and no asset download; one that finds
\* neither starts with the release lookup.
C2_CacheHitNoNetwork ==
    fetch_ret # "none" =>
        IF FetchedBefore.tar.exists \/ FetchedBefore.zip.exists
        THEN FetchCallsOf(NetworkOps) = {} /\ FetchedAfter.tar = FetchedBefore.tar
             /\ FetchedAfter.zip = FetchedBefore.zip
        ELSE Len(fetch_calls) >= 1 /\ fetch_calls[1].op \in {"get_by_tag", "get_latest"}

\* C2 witness: a call that succeeds without any network call on the zip that an
\* earlier call of the same behaviour downloaded from o2's release.
C2_Witness ==
    /\ fetch_ret = "Ok:manifest_dir"
    /\ FetchedBefore.zip = Archive("o2", NoRef) /\ ~FetchedBefore.tar.exists
    /\ FetchCallsOf(NetworkOps) = {}

\* The last call got an archive: it found one, or downloaded one.
FetchGotArchive ==
    fetch_ret \notin {"none", "Err:FetchRelease", "Err:NoSuitableAsset", "Err:GetAsset",
                      "Err:Download"}

\* C13: with attest set, every fetch_extractor that has an archive, downloaded
\* or found in the directory, runs the attestation command once, before any
\* extraction; when the command exits non-zero the fetch returns the
\* attestation error and nothing is extracted, searched or made executable;
\* with attest unset the command is never run.
C13_AttestationGate ==
    fetch_ret # "none" =>
        /\ (fetch_arg.attest /\ FetchGotArchive) =>
              /\ Cardinality(FetchCallsOf({"attestation_verify"})) = 1
              /\ fetch_attest # "not_run"
              /\ \A i \in FetchCallsOf({"attestation_verify"}) :
                    \A j \in FetchCallsOf({"extract_archive", "update_tools_permisisons"}) : i < j
        /\ fetch_attest = "exit_nonzero" =>
              /\ fetch_ret = "Err:AttestationFailed"
              /\ fetch_calls[Len(fetch_calls)].op = "attestation_verify"
              /\ FetchCallsOf({"extract_archive", "update_tools_permisisons"}) = {}
              /\ FetchedAfter.pack = FetchedBefore.pack
        /\ ~fetch_arg.attest =>
              /\ FetchCallsOf({"attestation_verify"}) = {}
              /\ fetch_attest = "not_run"

\* C13 witness: the tarball was in the directory, not yet extracted; the
\* command was run on it, exited non-zero and the fetch failed.
C13_Witness ==
    /\ fetch_arg.attest /\ fetch_attest = "exit_nonzero"
    /\ FetchedBefore.tar.exists /\ ~FetchedBefore.pack.exists
    /\ FetchCallsOf(NetworkOps) = {}
    /\ fetch_ret = "Err:AttestationFailed"

\* The archive the last call works with: the tarball when there is one, else the zip.
ArchiveInUse == IF FetchedAfter.tar.exists THEN "tar.gz" ELSE "zip"

\* C14 (as stated): with attest set, the path given to the attestation command
\* is the path of the archive the fetch works with, tarball or zip, which is
\* the path given to the extraction.
C14_AttestsArchiveInUse ==
    (fetch_arg.attest /\ FetchGotArchive) =>
        /\ \A i \in FetchCallsOf({"attestation_verify"}) : fetch_calls[i].path = ArchiveInUse
        /\ \A j \in FetchCallsOf({"extract_archive"}) : fetch_calls[j].path = ArchiveInUse

\* C15: a fetch that looks a release up makes exactly one lookup, its first
\* call: by tag, with the tag of the reference, when the reference has one,
\* and of the latest release when it has none; when the lookup fails the fetch
\* fails with the lookup's error, no asset is requested or downloaded and the
\* directory is what it was.
C15_OneReleaseLookup ==
    /\ fetch_lookup # "not_run" =>
          /\ Cardinality(FetchCallsOf({"get_by_tag", "get_latest"})) = 1
          /\ fetch_calls[1] = (IF fetch_arg.repository.reference # NoRef
                               THEN Call("get_by_tag", NoAsset, fetch_arg.repository.reference)
                               ELSE Call("get_latest", NoAsset, ""))
    /\ fetch_lookup = "not_run" => FetchCallsOf({"get_by_tag", "get_latest"}) = {}
    /\ fetch_lookup = "failed" =>
          /\ fetch_ret = "Err:FetchRelease"
          /\ Len(fetch_calls) = 1
          /\ FetchedAfter = FetchedBefore
    /\ fetch_ret = "Err:FetchRelease" => fetch_lookup = "failed"

\* C15 witness: the lookup by tag v1 failed and the fetch failed with it.
C15_Witness ==
    /\ fetch_lookup = "failed" /\ fetch_ret = "Err:FetchRelease"
    /\ fetch_calls = <<Call("get_by_tag", NoAsset, "v1")>>

\* The files the permission step is to make executable: the two platform
\* executables and every file ending in .sh below tools/, at any depth.
ToBeExecutable == {p \in ToolsPaths : p \in {"linux64/extractor", "osx64/extractor"} \/ HasShExtension(p)}

\* After a fetch that returned the manifest's directory, the files of `ps` that
\* exist have mode 0o555, the files that did not exist still do not, and
\* every other file has the mode it had.
ModesAfterFetch(ps) ==
    fetch_ret = "Ok:manifest_dir" =>
        \A p \in ToolsPaths :
            /\ fetch_tools.mode[p] = 0 => FetchedAfter.pack.tools.mode[p] = 0
            /\ (p \in ps /\ fetch_tools.mode[p] # 0) => FetchedAfter.pack.tools.mode[p] = 365
            /\ p \notin ps => FetchedAfter.pack.tools.mode[p] = fetch_tools.mode[p]

\* C16 (as stated): after a successful fetch_extractor that found a manifest,
\* tools/linux64/extractor, tools/osx64/extractor and every file ending in .sh
\* below tools/, at any depth, have mode 0o555 if they exist; absent files are
\* skipped and no other file's mode is changed.
C16_ToolsExecutable == ModesAfterFetch(ToBeExecutable)

\* C16 with the scripts directly in tools/ only.
C16_DirectScriptsCase == ModesAfterFetch(ToBeExecutable \ {"sub/run.sh"})


\* The path a successful fetch_extractor returns for the tree on disk: the
\* directory of the manifest when the tree holds one, else the target itself.
PathOf(pack) == IF pack.manifest THEN "Ok:manifest_dir" ELSE "Ok:pack"

\* C27: a fetch_extractor that finds the target directory {output}/{name}
\* extracts nothing, whatever archive it has got, and leaves the tree what it
\* was but for the permissions; its path, when it returns one, is the one the
\* tree on disk gives, so the same as long as the tree is the same.  One that
\* does not find the target and returns a path has extracted once.
C27_ExtractOnlyWhenAbsent ==
    fetch_ret # "none" =>
        IF FetchedBefore.pack.exists
        THEN /\ FetchCallsOf({"extract_archive"}) = {}
             /\ FetchedAfter.pack.exists
             /\ FetchedAfter.pack.manifest = FetchedBefore.pack.manifest
             /\ FetchedAfter.pack.owner = FetchedBefore.pack.owner
             /\ FetchedAfter.pack.reference = FetchedBefore.pack.reference
             /\ fetch_ret \in {"Ok:pack", "Ok:manifest_dir"} => fetch_ret = PathOf(FetchedBefore.pack)
        ELSE fetch_ret \in {"Ok:pack", "Ok:manifest_dir"} =>
                /\ Cardinality(FetchCallsOf({"extract_archive"})) = 1
                /\ FetchedAfter.pack.exists
                /\ fetch_ret = PathOf(FetchedAfter.pack)

\* C27 witness: the target directory was there without any archive; the call
\* downloaded one, extracted nothing and returned the target.
C27_Witness ==
    /\ fetch_ret = "Ok:pack"
    /\ FetchedBefore.pack.exists /\ ~FetchedBefore.pack.manifest
    /\ FetchCallsOf({"download_asset"}) # {}


\* The archive file the last fetch_extractor worked with.
UsedArchive == IF FetchedAfter.tar.exists THEN FetchedAfter.tar ELSE FetchedAfter.zip

\* C28 (as stated): the archive and the extracted tree a fetch_extractor
\* returns a path for are those of the reference it was called with: same
\* owner and same tag (or latest), never those an earlier fetch of another
\* owner's or another tag's reference left under the same name.
C28_CacheKeyedByIdentity ==
    fetch_ret \in {"Ok:pack", "Ok:manifest_dir"} =>
        /\ UsedArchive.owner = fetch_arg.repository.owner
        /\ UsedArchive.reference = fetch_arg.repository.reference
        /\ FetchedAfter.pack.owner = fetch_arg.repository.owner
        /\ FetchedAfter.pack.reference = fetch_arg.repository.reference


-----------------------------------------------------------------------------
(* Properties of get_codeql_dir, under SpecDir.                             *)

\* The order the documentation of get_codeql_directories gives.
DocumentedOrder == <<"github_workspace", "working_directory", "runner_temp", "temp_dir">>

\* The places in the documented order of the candidates that exist or can be created.
UsableAt(env) == {k \in 1..Len(DocumentedOrder) : env[DocumentedOrder[k]] \in {"exists", "creatable"}}

\* C31 (as stated): get_codeql_dir returns the first candidate, in the order
\* GitHub workspace, working directory, runner temp, system temp, that exists
\* or can be created, and an error only when there is none.
C31_DocumentedOrder ==
    dir_ret # "none" =>
        IF UsableAt(dir_pre) = {}
        THEN dir_ret \notin Candidates
        ELSE dir_ret = DocumentedOrder[CHOOSE k \in UsableAt(dir_pre) :
                                          \A j \in UsableAt(dir_pre) : k <= j]

-----------------------------------------------------------------------------
(* Properties of codeql_download and of main, checked under Spec.           *)

\* The place of a tier in the chain.
TierRank(tier) == IF tier = "auth" THEN 1 ELSE IF tier = "unauth" THEN 2 ELSE 3

\* C6: codeql_download tries the tiers in the order authenticated install,
\* unauthenticated install, gh CLI fallback: the chain starts with the
\* authenticated tier exactly when the token is not empty, a tier is tried
\* only right after the tier before it failed to install, a failed
\* authenticated or unauthenticated install leads to the next tier and not to
\* the end of the run, and after a tier that installed no tier is tried.
C6_TierOrder ==
    /\ install_log # <<>> =>
          install_log[1].tier = (IF action.token # "" THEN "auth" ELSE "unauth")
    /\ \A i \in 1..Len(install_log) :
          install_log[i].tier = "auth" => action.token # ""
    /\ \A i \in 1..(Len(install_log) - 1) :
          /\ install_log[i].result = "install_failed"
          /\ TierRank(install_log[i + 1].tier) = TierRank(install_log[i].tier) + 1
    /\ install_log # <<>> =>
          LET last == install_log[Len(install_log)]
          IN  /\ (last.tier = "auth" /\ last.result = "install_failed") => pc = "unauth"
              /\ (last.tier = "unauth" /\ last.result = "install_failed") => pc = "gh"
              /\ last.result = "installed" => pc \notin {"auth", "unauth", "gh", "start"}
    /\ pc \in {"auth", "unauth", "gh"} => ~installed

\* C6 witness: the authenticated and the unauthenticated install failed, the
\* gh fallback installed the tool and the run went on.
C6_Witness ==
    /\ Len(install_log) = 3
    /\ install_log[1] = Tier("auth", "install_failed", <<>>)
    /\ install_log[2] = Tier("unauth", "install_failed", <<>>)
    /\ install_log[3].tier = "gh" /\ install_log[3].result = "installed"
    /\ pc = "fetch"

\* Every tier that was tried failed to install, the gh fallback being the last.
AllTiersFailed ==
    /\ install_log # <<>>
    /\ \A i \in 1..Len(install_log) : install_log[i].result = "install_failed"
    /\ install_log[Len(install_log)].tier = "gh"

HasStep(i, op, result) ==
    /\ i <= Len(steps)
    /\ \E k \in 1..Len(steps[i]) : steps[i][k].op = op /\ steps[i][k].result = result

\* C8: a failed database creation with allow-empty-database set skips that
\* extractor only (no analysis, patch or reload for it, its report untouched)
\* and the loop goes on to the next extractor; without it main returns an
\* error and no later extractor has a database created or analysed.
C8_CreateFailurePolicy ==
    /\ \A i \in 1..Len(steps) :
          HasStep(i, "create", "Err") =>
             /\ Len(steps[i]) = 1
             /\ IF action.allow_empty_database
                THEN /\ ~(pc = "fatal" /\ idx = i)
                     /\ i < Len(extractors) => idx > i
                     /\ i = Len(extractors) => pc \in {"finalize", "done"}
                ELSE /\ pc = "fatal" /\ idx = i
                     /\ Len(steps) = i
    /\ pc = "done" => Len(steps) = Len(extractors)

\* C8 witness: the first extractor's database creation failed and was skipped,
\* the second extractor went through its whole pipeline and main returned Ok.
C8_Witness ==
    /\ pc = "done" /\ outcome = Returned
    /\ Len(steps) = 2
    /\ HasStep(1, "create", "Err") /\ Len(steps[1]) = 1
    /\ HasStep(2, "analyze", "Ok") /\ HasStep(2, "patch", "Ok") /\ HasStep(2, "reload", "Ok")

\* main returned the error of update_sarif reading or parsing the report of
\* the extractor at i.
FatalOnReport(i) ==
    /\ pc = "fatal" /\ idx = i
    /\ Len(outcome.chain) = 2
    /\ outcome.chain[1] = "Failed to update SARIF file with extractor information"
    /\ outcome.chain[2] \in {"ErrRead", "ErrParse"}

\* C9 (as stated): a failed analysis, whatever its error and also when it left
\* no report file, never makes main return an error over that report: the run
\* goes on with the remaining extractors.
C9_AnalysisFailureNotFatal ==
    \A i \in 1..Len(steps) :
        (HasStep(i, "analyze", "Err") \/ HasStep(i, "analyze", "SerdeError")) => ~FatalOnReport(i)

\* C10 (as stated): when analysis reports that the report it produced does not
\* parse, the run goes on with the remaining extractors and the report file
\* stays exactly as the analysis produced it.
C10_MalformedReportKept ==
    \A i \in 1..Len(steps) :
        HasStep(i, "analyze", "SerdeError") =>
            /\ ~FatalOnReport(i)
            /\ \A k \in 2..Len(steps[i]) :
                  steps[i][k - 1].op = "analyze" => steps[i][k].report = steps[i][k - 1].report


\* The failures update_sarif reports.
SarifFailures == {"ErrRead", "ErrParse", "ErrWrite"}

\* C11: update_sarif returns an error when the report cannot be read, does not
\* parse, or cannot be written back; on a read or parse failure the file is
\* what it was; and main returns that error at once: the extractor the patch
\* was for is the last one with any step, and no reload follows the patch.
C11_PatchFailureFatal ==
    sarif_calls > 0 =>
        /\ sarif_old.st = "absent" => sarif_ret = "ErrRead"
        /\ sarif_old.st = "invalid" => sarif_ret = "ErrParse"
        /\ (sarif_old.st = "json" /\ sarif_write # "ok") => sarif_ret = "ErrWrite"
        /\ sarif_ret \in {"ErrRead", "ErrParse"} => sarif = sarif_old
        /\ sarif_ret \in SarifFailures =>
              /\ pc = "fatal"
              /\ outcome = Err(<<"Failed to update SARIF file with extractor information", sarif_ret>>)
              /\ Len(steps) = idx
              /\ steps[idx][Len(steps[idx])] = Step("patch", sarif_ret, sarif)
              /\ reports[extractors[idx].name] = sarif
        /\ (pc = "reload" \/ HasStep(idx, "reload", "Ok") \/ HasStep(idx, "reload", "Err"))
              => sarif_ret = "Ok"

\* C11 witness: the first of two extractors' report did not parse; main has
\* returned the error and the second extractor has no step.
C11_Witness ==
    /\ sarif_calls = 1 /\ sarif_ret = "ErrParse" /\ sarif_old = FileInvalid
    /\ pc = "fatal" /\ idx = 1 /\ Len(extractors) = 2 /\ Len(steps) = 1

\* C11 witness, write side: the report parsed and the write back failed.
C11_WitnessWrite ==
    /\ sarif_ret = "ErrWrite" /\ sarif_write = "write_failed" /\ pc = "fatal"


\* The extractor at i went through its whole pipeline, the analysis having
\* written a report that holds runs[0].tool.driver.
PipelineCompleted(i) ==
    /\ HasStep(i, "create", "Ok") /\ HasStep(i, "analyze", "Ok")
    /\ HasStep(i, "patch", "Ok") /\ HasStep(i, "reload", "Ok")
    /\ \A n \in 1..Len(steps[i]) :
          steps[i][n].op = "analyze" => DriverOf(steps[i][n].report.val) # None

\* The pipeline of some extractor wrote the report of `language` in this run.
ReportProduced(language) ==
    \E i \in 1..Len(steps) :
        /\ extractors[i].name = language
        /\ \E n \in 1..Len(steps[i]) : steps[i][n].op \in {"analyze", "patch"}

\* The languages of the extractors at distinct places are distinct.
DistinctLanguages ==
    \A i, j \in 1..Len(extractors) : extractors[i].name = extractors[j].name => i = j

\* C12 (as stated): without allow-empty-database, a failed database creation
\* for the k-th extractor makes main return an error; the run has produced no
\* report for the language of the k-th or of any later extractor, and for
\* every earlier extractor whose pipeline completed the report of its
\* language exists and names the driver "CodeQL - " + its display name.
C12_AbortKeepsEarlierReports ==
    \A k \in 1..Len(steps) :
        (HasStep(k, "create", "Err") /\ ~action.allow_empty_database) =>
            /\ pc = "fatal" /\ outcome.status = "Err"
            /\ Len(steps) = k /\ Len(steps[k]) = 1
            /\ \A j \in k..Len(extractors) : ~ReportProduced(extractors[j].name)
            /\ \A i \in 1..(k - 1) :
                  PipelineCompleted(i) =>
                     /\ reports[extractors[i].name].st = "json"
                     /\ Get(DriverOf(reports[extractors[i].name].val), "name")
                           = JStr("CodeQL - " \o extractors[i].display_name)

\* C12 with the languages of the run distinct (the case C17 leaves out).
C12_DistinctLanguagesCase == DistinctLanguages => C12_AbortKeepsEarlierReports


\* Two extractors of the run have the same language, hence the same
\* databases/db-{language} and results/{language}-results.sarif.
SharedLanguage ==
    \E i, j \in 1..Len(extractors) : i # j /\ extractors[i].name = extractors[j].name

\* C17 (as stated): no two extractors of a run work on the same database and
\* report paths, so that the database and the report an extractor's completed
\* pipeline left are still what it left them once a later extractor is worked
\* on; and a database is created or analysed only for the language of a
\* loaded extractor.
C17_OneExtractorPerLanguage ==
    /\ \A i \in 1..Len(steps) :
          (PipelineCompleted(i) /\ i < idx) =>
             /\ databases[extractors[i].name] = "analyzed"
             /\ reports[extractors[i].name] = steps[i][Len(steps[i])].report
    /\ \A l \in Languages :
          databases[l] \in {"created", "failed", "analyzed"} =>
             \E i \in 1..Len(extractors) : extractors[i].name = l

\* C17 in the runs whose extractors have distinct languages.
C17_DistinctLanguagesCase == SharedLanguage \/ C17_OneExtractorPerLanguage

\* Some requested language is, compared without case, none of the languages
\* the tool reports (those of the loaded extractors).
Unsupported ==
    \E i \in 1..Len(action.languages) :
        \A j \in 1..Len(extractors) : ToLower(action.languages[i]) # ToLower(extractors[j].name)

\* main returned the validation error.
ValidateFailed == outcome = Err(<<"Failed to validate languages">>)

\* main is past the validation of the languages.
ValidatePassed ==
    \/ pc \in {"create", "analyze", "patch", "reload", "finalize", "done"}
    \/ steps # <<>>
    \/ outcome = Err(<<"Failed to create results directory">>)

\* C18: the validation fails exactly when languages were requested and one of
\* them is, compared without case, not among the supported ones; it is made
\* once every extractor is fetched and loaded, and when it fails main returns
\* its error with no database created or removed.
C18_ValidateLanguages ==
    /\ ValidateFailed =>
          /\ action.languages # <<>> /\ Unsupported
          /\ steps = <<>>
          /\ \A l \in Languages : databases[l] \in {"absent", "left"}
    /\ ValidatePassed => (action.languages = <<>> \/ ~Unsupported)
    /\ (ValidateFailed \/ ValidatePassed \/ pc = "languages") =>
          Len(extractors) = Len(ExtractorRepos)

\* C18 witness: "go" was requested, both extractors were loaded, the
\* validation failed.
C18_Witness ==
    /\ ValidateFailed /\ pc = "fatal"
    /\ action.languages = <<"go">> /\ Len(extractors) = 2

\* C18 witness, accepted side: "Python" was requested, the extractor for
\* python was loaded and the run completed.
C18_WitnessAccepted ==
    /\ pc = "done" /\ action.languages = <<"Python">>
    /\ \E j \in 1..Len(extractors) : extractors[j].name = "python"


\* The last fetch_extractor got as far as the manifest search, which ran.
FetchSearched ==
    /\ FetchGotArchive
    /\ fetch_ret \notin {"Err:AttestationSpawn", "Err:AttestationFailed", "Err:Extract", "Err:Glob"}

\* C19: a fetch_extractor whose extracted tree holds no codeql-extractor.yml
\* returns Ok with the extraction directory itself, without running the
\* permission step and with the tools/ modes as they were; main then appends
\* that directory to the search path, fails to load the extractor from it and
\* returns that error: the extractor is not added and no pipeline starts.
C19_MissingManifestSurfacesAtLoad ==
    /\ (FetchSearched /\ ~FetchedAfter.pack.manifest) => fetch_ret = "Ok:pack"
    /\ fetch_ret = "Ok:manifest_dir" => FetchedAfter.pack.manifest
    /\ fetch_ret = "Ok:pack" =>
          /\ FetchedAfter.pack.exists /\ ~FetchedAfter.pack.manifest
          /\ FetchCallsOf({"update_tools_permisisons"}) = {}
          /\ FetchedAfter.pack.tools = fetch_tools
          /\ search_path[Len(search_path)] = [name |-> fetch_arg.repository.name, dir |-> "Ok:pack"]
          /\ pc = "fatal"
          /\ outcome = Err(<<"Failed to load extractor">>)
          /\ Len(extractors) = idx - 1
          /\ steps = <<>>

\* C19 witness: the second repository's archive held no manifest; the first
\* extractor was loaded, the second was not, and main returned the load error.
C19_Witness ==
    /\ fetch_ret = "Ok:pack" /\ pc = "fatal"
    /\ idx = 2 /\ Len(extractors) = 1


\* The languages whose database creation failed and was skipped.
SkippedLanguages == {extractors[i].name : i \in {k \in 1..Len(steps) : HasStep(k, "create", "Err")}}

\* C20 (as stated): with allow-empty-database a failed database creation is
\* never what main fails with; a run that ends, also one in which every
\* language was skipped, returns Ok with the sarif-results output set, and a
\* message emitted at the end names each language that was skipped.
C20_SkipsSummarised ==
    /\ (pc = "fatal" /\ action.allow_empty_database) =>
          outcome.chain[1] # "Failed to create database: create"
    /\ pc = "done" =>
          /\ outcome = Returned
          /\ emitted.sarif_results # "unset"
          /\ \A l \in SkippedLanguages :
                \E n \in 1..Len(emitted.messages) : l \in emitted.messages[n].languages

\* C20 without the summary: the run with skipped languages ends Ok with the
\* output set.
C20_SkipsNotFatal ==
    /\ (pc = "fatal" /\ action.allow_empty_database) =>
          outcome.chain[1] # "Failed to create database: create"
    /\ pc = "done" => (outcome = Returned /\ emitted.sarif_results # "unset")
    /\ pc # "done" => emitted = NoEmitted


\* The driver name of a report file (None when the file holds none).
DriverName(file) == Get(DriverOf(file.val), "name")

\* C21 (as stated): the sarif-tool-name input decides the rewrite: when it is
\* false the report's runs[0].tool.driver.name after the post-processing step
\* is what the analysis wrote; when it is true the name of a report that has a
\* driver is "CodeQL - " followed by the display name.
C21_ToolNameInputHonoured ==
    \A i \in 1..Len(steps) :
        \A n \in 2..Len(steps[i]) :
            (steps[i][n].op = "patch" /\ steps[i][n].result = "Ok") =>
                IF action.sarif_tool_name
                THEN DriverOf(steps[i][n - 1].report.val) # None =>
                        DriverName(steps[i][n].report) = JStr("CodeQL - " \o extractors[i].display_name)
                ELSE DriverName(steps[i][n].report) = DriverName(steps[i][n - 1].report)

\* C21 with the input true.
C21_RewrittenWhenTrue == action.sarif_tool_name => C21_ToolNameInputHonoured


\* The phase main is in or ended in: 1 install, 2 fetch, 3 validate,
\* 4 pipeline, 5 finalize (0: main returned an error; see outcome).
Phase ==
    IF pc \in {"start", "auth", "unauth", "gh", "packs"} THEN 1
    ELSE IF pc = "fetch" THEN 2
    ELSE IF pc = "languages" THEN 3
    ELSE IF pc \in {"create", "analyze", "patch", "reload"} THEN 4
    ELSE IF pc \in {"finalize", "done"} THEN 5
    ELSE 0

\* The pipeline of the extractor at i has ended: skipped, or reloaded.
PipelineEnded(i) == HasStep(i, "create", "Err") \/ HasStep(i, "reload", "Ok")

\* C22: main goes through install, fetch, validate, pipeline, finalize in that
\* order: extractors are fetched only with the tool installed; a database is
\* created (or removed) only once every reference has been fetched and loaded
\* and the validation has passed; a fetch or load failure ends the run with no
\* database touched; and the sarif-results output is set only when main
\* returns Ok, every extractor's pipeline having ended.
C22_PhaseOrder ==
    /\ (fetch_ret # "none" \/ Phase >= 2) => installed
    /\ Phase <= 2 /\ Phase # 0 => (steps = <<>> /\ emitted = NoEmitted)
    /\ Phase = 1 => (fetch_ret = "none" /\ extractors = <<>>)
    /\ (Phase >= 3 \/ steps # <<>>) =>
          /\ Len(extractors) = Len(ExtractorRepos)
          /\ \A i \in 1..Len(extractors) : extractors[i].reporef = ExtractorRepos[i]
    /\ (Phase >= 4 \/ steps # <<>>) => (action.languages = <<>> \/ ~Unsupported)
    /\ (outcome.status = "Err" /\ outcome.chain[1] \in {"Failed to fetch extractor",
                                                        "Failed to load extractor"}) =>
          /\ steps = <<>>
          /\ \A l \in Languages : databases[l] \in {"absent", "left"}
    /\ emitted.sarif_results # "unset" =>
          /\ pc = "done" /\ outcome = Returned
          /\ Len(steps) = Len(extractors)
          /\ \A i \in 1..Len(extractors) : PipelineEnded(i)
    /\ outcome.status = "Err" => emitted = NoEmitted

\* C22 witness: the first extractor was fetched and loaded, the fetch of the
\* second failed; main returned the error with no database touched.
C22_Witness ==
    /\ pc = "fatal" /\ outcome.chain[1] = "Failed to fetch extractor"
    /\ Len(extractors) = 1 /\ Len(ExtractorRepos) = 2
    /\ steps = <<>>

\* C22 witness, whole run: two extractors went through their pipelines and
\* the output was set.
C22_WitnessDone ==
    /\ pc = "done" /\ emitted.sarif_results # "unset"
    /\ Len(extractors) = 2 /\ HasStep(1, "reload", "Ok") /\ HasStep(2, "reload", "Ok")


\* The fetch loop ended in an error on the reference at idx.
FetchLoopFailed ==
    /\ outcome.status = "Err"
    /\ outcome.chain[1] \in {"Failed to fetch extractor", "Failed to load extractor"}

\* C23: the handle's search-path list holds one entry per successfully fetched
\* extractor, in fetch order, and none for a failed fetch; whenever a database
\* creation has been or is about to be called, it holds the path of every
\* extractor of the run.
C23_SearchPathComplete ==
    /\ Len(search_path) <= Len(ExtractorRepos)
    /\ \A i \in 1..Len(search_path) :
          /\ search_path[i].name = ExtractorRepos[i].name
          /\ search_path[i].dir \in {"Ok:pack", "Ok:manifest_dir"}
    /\ Phase = 1 => search_path = <<>>
    /\ Phase = 2 => Len(search_path) = idx - 1
    /\ FetchLoopFailed =>
          Len(search_path) = IF outcome.chain[1] = "Failed to fetch extractor"
                             THEN idx - 1 ELSE idx
    /\ (Phase >= 3 \/ steps # <<>>) =>
          /\ Len(search_path) = Len(extractors)
          /\ \A i \in 1..Len(extractors) : search_path[i].name = extractors[i].reporef.name

\* C23 witness: the database of the first of two extractors is about to be
\* created and the list holds both paths.
C23_Witness ==
    /\ pc = "create" /\ idx = 1 /\ steps = <<>>
    /\ Len(extractors) = 2 /\ Len(search_path) = 2

\* C23 witness, failed fetch: the second fetch failed and added no entry.
C23_WitnessFailedFetch ==
    /\ FetchLoopFailed /\ outcome.chain[1] = "Failed to fetch extractor"
    /\ idx = 2 /\ Len(search_path) = 1


\* C24: a database is created in a directory that is not there: what was at
\* databases/db-{language} is removed before the creation is called, so no
\* database holds contents from before; and when the removal fails main
\* returns the error, the directory left as it was and no creation called
\* for that extractor.
C24_DatabaseCreatedFresh ==
    /\ \A l \in Languages : databases[l] # "overwritten"
    /\ pc = "analyze" => databases[extractors[idx].name] = "created"
    /\ (outcome.status = "Err" /\ outcome.chain[1] = "Failed to remove database directory") =>
          /\ pc = "fatal"
          /\ Len(steps) < idx
          /\ databases[extractors[idx].name] \notin {"absent", "overwritten"}

\* C24 witness: a database directory left by a previous run was there, and the
\* first extractor's database has been created.
C24_Witness ==
    /\ Len(steps) = 1 /\ HasStep(1, "create", "Ok")
    /\ reports[extractors[1].name] = LeftReport
    /\ databases[extractors[1].name] = "created"

\* C24 witness, removal fails: main returned the removal error.
C24_WitnessRemoveFailed ==
    /\ pc = "fatal" /\ outcome.chain[1] = "Failed to remove database directory"
    /\ databases[extractors[idx].name] = "left"


\* An install attempt of the log left the tool installed.
InstalledByAttempt == \E i \in 1..Len(install_log) : install_log[i].result = "installed"

\* C25: with the tool installed when codeql_download is called, no install is
\* attempted: neither API install nor any gh command is in the log, the tool
\* stays installed and main goes on to the packs.
C25_InstalledNoAttempt ==
    /\ (installed /\ ~InstalledByAttempt) => install_log = <<>>
    /\ install_log # <<>> =>
          /\ install_log[1].tier = FirstTier(action.token)
          /\ installed <=> InstalledByAttempt
    /\ pc \in {"auth", "unauth", "gh"} => ~installed

\* C25 witness: codeql_download returned the handle of a tool that was
\* installed, and nothing was attempted.
C25_Witness ==
    /\ pc = "packs" /\ installed /\ install_log = <<>>


\* The entries of the install log made by the GitHub CLI fallback.
GhEntries == {i \in 1..Len(install_log) : install_log[i].tier = "gh"}

\* A sub-step ended well.
GhPassed(call) == call.exit \in {"0", "true"}

\* C26: the GitHub CLI fallback runs extension install, set-version with the
\* requested version, install-stub and the is_installed query in that order;
\* nothing runs after a sub-step that failed, a failed sub-step makes
\* codeql_download return the error, and the fallback succeeds only with all
\* four passed.
C26_GhSubstepOrder ==
    \A i \in GhEntries :
        LET e == install_log[i]
            n == Len(e.calls)
        IN  /\ n \in 1..4
            /\ \A k \in 1..n :
                  e.calls[k].cmd = GhCommands(codeql_version(action.codeql_version))[k]
            /\ \A k \in 1..(n - 1) : GhPassed(e.calls[k])
            /\ e.result \in {"installed", "build_failed"} <=>
                  (n = 4 /\ \A k \in 1..4 : GhPassed(e.calls[k]))
            /\ e.result = "installed" => installed
            /\ e.result = "install_failed" =>
                  /\ ~GhPassed(e.calls[n])
                  /\ pc = "fatal" /\ ~installed
                  /\ outcome.chain[2] = "Failed to download CodeQL using GitHub CLI"

\* C26 witness: install-stub failed after two sub-steps that passed, with a
\* version requested.
C26_Witness ==
    /\ GhEntries # {}
    /\ \E i \in GhEntries :
          /\ Len(install_log[i].calls) = 3
          /\ install_log[i].calls[2] = GhCall("gh codeql set-version 2.20.0", "0")
          /\ install_log[i].calls[3].exit = "1"
    /\ pc = "fatal"

\* C26 witness, success: the four sub-steps passed and main went on.
C26_WitnessInstalled ==
    /\ \E i \in GhEntries : install_log[i].result = "installed"
    /\ pc = "packs"


\* C29 (as stated): a run that gets past the fetch loop holds one extractor
\* per entry of the extractors input, in the order of the input, and a run
\* that completes has taken each of them through the pipeline: no entry is
\* left out.
C29_OneDescriptorPerReference ==
    /\ Phase >= 3 =>
          /\ Len(extractors) = Len(action.extractors)
          /\ \A i \in 1..Len(extractors) : extractors[i].reporef = action.extractors[i]
    /\ pc = "done" =>
          /\ Len(steps) = Len(action.extractors)
          /\ \A i \in 1..Len(steps) : PipelineEnded(i)


C30_WitnessRelative ==
    /\ pc = "done" /\ emitted.ci
    /\ emitted.sarif_results = ".codeql/results"

\* C30 witness, outside: CI was set, the results directory is not under the
\* working directory and the output is the absolute path.
C30_WitnessOutside ==
    /\ pc = "done" /\ emitted.ci
    /\ emitted.sarif_results = "/tmp/.codeql/results"


\* The markers are those of groups opened and closed one after the other.
MarkersAlternate ==
    \A k \in 1..Len(markers) : markers[k] = IF k % 2 = 1 THEN "group" ELSE "endgroup"

\* C32 (as stated): a group is opened only with no group open, and a run
\* that returns Ok has closed every group it opened, also when a language was
\* skipped after a failed database creation.
C32_GroupsScoped ==
    /\ MarkersAlternate
    /\ pc = "done" => Len(markers) % 2 = 0

\* The groups are scoped in the runs that skip no language.
C32_ScopedWithoutSkip ==
    (\A i \in 1..Len(steps) : ~HasStep(i, "create", "Err")) => C32_GroupsScoped


\* The extractor at i is the first of the run with its language: the report
\* file its pipeline starts with is what was there before the run.
FirstOfLanguage(i) == \A j \in 1..(i - 1) : extractors[j].name # extractors[i].name

\* C33 (as stated): a report that a pipeline patched was written by the
\* analysis of that pipeline: the file an earlier run left at
\* results/{language}-results.sarif is never the one patched with the
\* extractor's name when the analysis wrote no report.
C33_PatchedReportIsCurrent ==
    \A i \in 1..Len(steps) : \A k \in 3..Len(steps[i]) :
        (/\ FirstOfLanguage(i)
         /\ steps[i][k].op = "patch" /\ steps[i][k].result = "Ok"
         /\ steps[i][k - 1].op = "analyze" /\ steps[i][1].op = "create") =>
            steps[i][k - 1].report # steps[i][1].report

=============================================================================
